---- MODULE Spec2Model ----
(***************************************************************************)
(* Reconcilers of knative serving (fork ZhiminXiang/serving-1):            *)
(*   - the ClusterIngress reconciler (two revisions of the same file are   *)
(*     present in the source; `build` selects which one runs),             *)
(*   - the Certificate reconciler,                                         *)
(*   - the Route reconciler.                                               *)
(* Every reconciler reads through listers (an informer cache that lags the *)
(* object store) and writes through a clientset (the object store, which   *)
(* rejects a write made from a stale resourceVersion).                     *)
(***************************************************************************)
EXTENDS Integers, Sequences, FiniteSets, TLC

\* ------------------------------------------------------------------ bounds
MaxFailures == 1      \* injected store-call failures per behaviour
MaxSpecChanges == 1   \* edits of a ClusterIngress spec by the user

\* --------------------------------------------------------------- universe
Owners == {"A", "B"}                 \* ClusterIngress names
Builds == {1, 2}                     \* the two revisions of the reconciler

clusterIngressFinalizer == "clusteringresses.networking.internal.knative.dev"
OtherFinalizer == "a.example.com/protect"

DefaultServiceURL == "istio-ingressgateway.istio-system.svc.cluster.local"
OtherServiceURL == "custom-gateway.other-system.svc.cluster.local"
ServiceURLs == {DefaultServiceURL, OtherServiceURL}
\* The service of a second gateway in the namespace of the default one.
LocalServiceURL == "cluster-local-gateway.istio-system.svc.cluster.local"

\* strings.Split(ServiceURL, ".")[1] for the service URLs of the model.
ServiceNamespace(url) ==
  IF url \in {DefaultServiceURL, LocalServiceURL} THEN "istio-system" ELSE "other-system"

\* The Istio part of the config snapshot that the controllers start with: the
\* ingress gateways, each with the URL of its service.
IngressGateways ==
  << [GatewayName |-> "knative-ingress-gateway", ServiceURL |-> DefaultServiceURL] >>

\* Namespace hard-coded by build 1 of reconcileCertSecret.
IstioSystem == "istio-system"

NoOwner == "-"

\* The keys that `stable` follows: the ClusterIngresses, the Certificate, the Route.
Keys == Owners \cup {"certificate", "route"}

VARIABLES
  build,        \* which revision of the ClusterIngress reconciler runs
  enableReconcilingGateway,  \* Reconciler.enableReconcilingGateway
  ingress,      \* object store: ClusterIngress by name
  ingressC,     \* clusterIngressLister (informer cache)
  gateway,      \* object store: Istio Gateway by name
  gatewayC,     \* gatewayLister
  secrets,      \* object store: replica secrets (a set of replica ids)
  secretsC,     \* secretLister
  vsvc,         \* object store: VirtualService by ClusterIngress name
  vsvcC,        \* virtualServiceLister
  track,        \* tracker registrations <<ref, owner>>
  mutex,        \* Reconciler.mutex: the keys whose worker holds it (build 1)
  wk,           \* per key: position and locals of the Reconcile call in flight
  stable,       \* per owner: the last reconcile body succeeded, nothing changed since
  failures,     \* store-call failures still to be injected
  specChanges,  \* spec edits still to come
  deletedByFinalizer,  \* replicas deleted by the deletion path
  aborted,      \* owners whose deletion path has returned an error from a cleanup step
  audit,        \* whether `stable` and the per-call audit fields are kept
  kind,         \* which reconciler this behaviour runs
  pure,         \* the last call of a desired-state builder: its arguments and its result
  knCert,       \* object store: the Knative Certificate
  knCertC,      \* knCertificateLister
  cmCert,       \* object store: the cert-manager Certificate of the same name
  cmCertC,      \* cmCertificateLister
  cw,           \* position and locals of the Certificate Reconcile call in flight
  route,        \* object store: the Route
  routeC,       \* routeLister
  kids,         \* object store: the Route's Certificate, ClusterIngress and Service
  kidsC,        \* certificateLister, clusterIngressLister, serviceLister
  cfgReady,     \* object store: the Route's Configuration has a ready revision
  cfgReadyC,    \* configurationLister, revisionLister
  rw,           \* position and locals of the Route Reconcile call in flight
  rw2,          \* the same for a second worker of the Route controller
  routeQueue,   \* work queue of the Route controller: the Route's key is in it
  routeTracker, \* tracker of the Route controller: the references with a live registration
  configStore,  \* config store: the snapshot built from the last good fragments
  lastChange,   \* the last config map delivered to the store, and how its parse ended
  loaded        \* the Config that a caller got from Store.Load, as the caller holds it

vars == << build, enableReconcilingGateway, ingress, ingressC, gateway, gatewayC,
           secrets, secretsC, vsvc, vsvcC, track, mutex, wk, stable,
           failures, specChanges, deletedByFinalizer, aborted, audit, kind, pure,
           knCert, knCertC, cmCert, cmCertC, cw,
           route, routeC, kids, kidsC, cfgReady, cfgReadyC, rw, rw2, routeQueue,
           routeTracker, configStore, lastChange, loaded >>

\* ---------------------------------------------------------------- helpers
Range(s) == { s[i] : i \in DOMAIN s }

\* A work-queue key is the sequence of its "/"-separated parts.
MalformedKey == << "too", "many", "parts" >>
InvalidKeyName == "too/many/parts"

\* cache.SplitMetaNamespaceKey: one part is a name, two are namespace and
\* name, anything else is an error.
SplitMetaNamespaceKey(key) ==
  CASE Len(key) = 1 -> [err |-> FALSE, namespace |-> "", name |-> key[1]]
    [] Len(key) = 2 -> [err |-> FALSE, namespace |-> key[1], name |-> key[2]]
    [] OTHER -> [err |-> TRUE, namespace |-> "", name |-> InvalidKeyName]

\* The keys that reach the work queue for an object: its own key, and a key
\* that does not parse.
WorkKeys(key) == { key, MalformedKey }

\* An invalid key that is handed back to the queue as an error.
InvalidKeyRequeued(r) == [r EXCEPT !.pc = "done", !.key = InvalidKeyName, !.ret = "error"]

\* "invalid resource key": logged, and Reconcile returns nil.
InvalidKey(r) == [r EXCEPT !.pc = "done", !.key = InvalidKeyName, !.ret = "nil"]

RECURSIVE dedupFrom(_, _)
dedupFrom(strs, seen) ==
  IF strs = << >> THEN << >>
  ELSE IF Head(strs) \in seen THEN dedupFrom(Tail(strs), seen)
       ELSE << Head(strs) >> \o dedupFrom(Tail(strs), seen \cup {Head(strs)})

\* dedup keeps the first occurrence of each string, in order.
dedup(strs) == dedupFrom(strs, {})

\* Lexicographic rank of the finalizer tokens of the model.
FinalizerRank(f) == IF f = OtherFinalizer THEN 1 ELSE 2

RECURSIVE SortedList(_)
\* sets.String.List(): the members in ascending order.
SortedList(S) ==
  IF S = {} THEN << >>
  ELSE LET m == CHOOSE x \in S : \A y \in S : FinalizerRank(x) <= FinalizerRank(y)
       IN << m >> \o SortedList(S \ {m})

\* config is the Config that the context of the call carries.
gatewayNamesFromContext(config) ==
  dedup([i \in DOMAIN config.Istio |-> config.Istio[i].GatewayName])

GetGatewaySvcNamespaces(config) ==
  [i \in DOMAIN config.Istio |-> ServiceNamespace(config.Istio[i].ServiceURL)]

\* The gateways of the model: every Istio fragment names the same ones.
GatewayNames == Range(gatewayNamesFromContext([Istio |-> IngressGateways]))

\* Namespace of the ingress service behind a gateway.
GatewayNamespace(g) ==
  LET i == CHOOSE j \in DOMAIN IngressGateways : IngressGateways[j].GatewayName = g
  IN ServiceNamespace(IngressGateways[i].ServiceURL)

\* -------------------------------------------------------------- DNS names
\* A DNS name is the sequence of its labels; strings.Split(name, ".") is the
\* identity on this form and strings.Join its inverse.
LabelRank(l) ==
  CASE l = "*" -> 0 [] l = "a" -> 1 [] l = "b" -> 2 [] l = "com" -> 3
    [] l = "example" -> 4 [] l = "ns" -> 5 [] l = "r" -> 6 [] l = "v1" -> 7
    [] l = "x" -> 8 [] l = "y" -> 9 [] OTHER -> 10

RECURSIVE NameLess(_, _)
\* Order of sort.Strings on the joined names.
NameLess(m, n) ==
  IF m = << >> THEN n # << >>
  ELSE IF n = << >> THEN FALSE
  ELSE IF Head(m) = Head(n) THEN NameLess(Tail(m), Tail(n))
  ELSE LabelRank(Head(m)) < LabelRank(Head(n))

\* A list left in the order it came in.
Unsorted(names) == names

RECURSIVE SortStrings(_)
\* sort.Strings: ascending, duplicates kept.
SortStrings(names) ==
  IF names = << >> THEN << >>
  ELSE LET i == CHOOSE k \in DOMAIN names :
                  \A j \in DOMAIN names : ~NameLess(names[j], names[k])
           rest == [j \in 1 .. Len(names) - 1 |-> IF j < i THEN names[j] ELSE names[j + 1]]
       IN << names[i] >> \o SortStrings(rest)

\* A name that stands for itself alone.
SameName(dnsName) == dnsName

\* "*." followed by all labels but the first.
wildcard(dnsName) == << "*" >> \o Tail(dnsName)

makeWildcardHosts(dnsNames) == dedup([i \in DOMAIN dnsNames |-> wildcard(dnsNames[i])])

\* No builder has been called.
NoCall == [fn |-> "none"]

\* wildcardCertName: the wildcard name without its first label.
wildcardCertName(wildcardDNSName) == Tail(wildcardDNSName)

\* names.RouteCertificate(route).
RouteCertificate(r) == << "route", r.name >>

\* fmt.Sprintf("%s/%s", route.Namespace, route.Name): a route key is the
\* sequence of its "/"-separated parts.
RouteNamespaceName(r) == << r.namespace, r.name >>

\* The value of the route-owner annotation: a JSON list of strings, the JSON
\* null, another JSON value ("{}"), a text that is not JSON, or "" (what the
\* map yields for a key it does not hold).
Marshal(routeKeys) == [json |-> "list", keys |-> routeKeys]
NullAnnotation == [json |-> "null", keys |-> << >>]
ObjectAnnotation == [json |-> "object", keys |-> << >>]
NotJSONAnnotation == [json |-> "invalid", keys |-> << >>]
MissingAnnotation == [json |-> "missing", keys |-> << >>]

\* json.Unmarshal into a []string: a list fills it, null leaves it nil,
\* anything else is an error.
Unmarshal(annotation) ==
  CASE annotation.json = "list" -> [err |-> FALSE, routeKeys |-> annotation.keys]
    [] annotation.json = "null" -> [err |-> FALSE, routeKeys |-> << >>]
    [] OTHER -> [err |-> TRUE, routeKeys |-> << >>]

\* makeCert: the Certificate of the Route for these DNS names.
makeCert(r, dnsNames, certName) ==
  [name |-> certName, annotation |-> Marshal(<< RouteNamespaceName(r) >>),
   dns |-> dnsNames, secretName |-> certName]

\* IsCertOwner: the key of the route is in the list of the annotation.
IsCertOwner(cert, r) ==
  LET u == Unmarshal(cert.annotation) IN
  IF u.err THEN [owner |-> FALSE, err |-> TRUE]
  ELSE [owner |-> \E i \in DOMAIN u.routeKeys : u.routeKeys[i] = RouteNamespaceName(r),
        err |-> FALSE]

\* An AddToCertOwner that leaves the annotation as it is.
AddNoOwner(cert, r) == [cert |-> cert, err |-> FALSE]

\* AddToCertOwner: append the key of the route, sort, store the list.
AddToCertOwner(cert, r) ==
  LET u == Unmarshal(cert.annotation) IN
  IF u.err THEN [cert |-> cert, err |-> TRUE]
  ELSE LET routeKeys == SortStrings(Append(u.routeKeys, RouteNamespaceName(r))) IN
       [cert |-> [cert EXCEPT !.annotation = Marshal(routeKeys)], err |-> FALSE]

RECURSIVE List(_)
\* sets.String.List() for route keys: the members in ascending order.
List(S) ==
  IF S = {} THEN << >>
  ELSE LET m == CHOOSE x \in S : \A y \in S : ~NameLess(y, x)
       IN << m >> \o List(S \ {m})

\* RemoveCertOwner: the keys as a set, without the key of the route, stored
\* as the sorted list of the set.
RemoveCertOwner(cert, r) ==
  LET u == Unmarshal(cert.annotation) IN
  IF u.err THEN [cert |-> cert, err |-> TRUE]
  ELSE LET routeKeyset == Range(u.routeKeys) \ {RouteNamespaceName(r)} IN
       [cert |-> [cert EXCEPT !.annotation = Marshal(List(routeKeyset))], err |-> FALSE]

RECURSIVE EveryWildcard(_, _)
\* One Certificate per DNS name, whether its wildcard has been seen or not.
EveryWildcard(r, dnsNames) ==
  IF dnsNames = << >> THEN << >>
  ELSE LET wildcardDNSName == wildcard(Head(dnsNames)) IN
       << makeCert(r, << wildcardDNSName >>, wildcardCertName(wildcardDNSName)) >>
         \o EveryWildcard(r, Tail(dnsNames))

\* A wildcard mode that skips no name.
MakeCertificatesPerName(r, dnsNames, enableWildcardCert) ==
  [certs |-> EveryWildcard(r, SortStrings(dedup(dnsNames))), err |-> FALSE]

RECURSIVE WildcardCerts(_, _, _)
\* The loop of the wildcard mode: a name whose wildcard is in
\* existingWildcardNames is skipped.
WildcardCerts(r, dnsNames, existingWildcardNames) ==
  IF dnsNames = << >> THEN << >>
  ELSE LET wildcardDNSName == wildcard(Head(dnsNames)) IN
       IF wildcardDNSName \in existingWildcardNames
       THEN WildcardCerts(r, Tail(dnsNames), existingWildcardNames)
       ELSE << makeCert(r, << wildcardDNSName >>, wildcardCertName(wildcardDNSName)) >>
              \o WildcardCerts(r, Tail(dnsNames),
                               existingWildcardNames \cup {wildcardDNSName})

\* DNS names for every target, the default one included.
NamesOfEveryTarget(r, targetNames) ==
  << r.domain >> \o [i \in DOMAIN targetNames |-> << targetNames[i] >> \o r.domain]

\* GetDNSNames: the status domain, then "<name>.<domain>" for each target
\* but the default one; targetNames is the order in which the range over
\* tc.Targets yields the names.
GetDNSNames(r, targetNames) ==
  LET named == SelectSeq(targetNames, LAMBDA name : name # "") IN
  << r.domain >> \o [i \in DOMAIN named |-> << named[i] >> \o r.domain]

\* MakeCertificates: an error for a Route without a status domain; else the
\* names are deduplicated and sorted, and carried by one Certificate per
\* distinct wildcard or, with the wildcard mode off, by a single Certificate.
MakeCertificates(r, dnsNames, enableWildcardCert) ==
  IF r.domain = << >> THEN [certs |-> << >>, err |-> TRUE]
  ELSE LET sorted == SortStrings(dedup(dnsNames)) IN
       [certs |-> IF enableWildcardCert
                  THEN WildcardCerts(r, sorted, {})
                  ELSE << makeCert(r, sorted, RouteCertificate(r)) >>,
        err |-> FALSE]

\* ------------------------------------------------------- gateway servers
\* A server entry is tagged with its owner through its port name
\* "<clusteringress-name>:<index>"; cred names the origin secret of the entry.
MakeServers(ci) ==
  { [owner |-> ci.name, idx |-> i - 1, cred |-> ci.tls[i]] : i \in DOMAIN ci.tls }

GetServers(gw, ci) == { s \in gw.servers : s.owner = ci.name }

UpdateGateway(gw, want, existing) ==
  [gw EXCEPT !.servers = (@ \ existing) \cup want]

\* ------------------------------------------------------- replica secrets
\* A secret is [ns, owner, origin, data]: a replica carries the name of its
\* ClusterIngress (label and name) and of its origin secret; an origin secret
\* has no owner. Namespace, owner and origin make up namespace and name.
OriginNamespace == "default"
OriginSecret(name, data) ==
  [ns |-> OriginNamespace, owner |-> NoOwner, origin |-> name, data |-> data]

\* Namespace and name of a secret.
SecretKey(s) == [ns |-> s.ns, owner |-> s.owner, origin |-> s.origin]

\* secretLister.Secrets(ns).Get(name): the secrets of that key (one or none).
SecretGet(lister, key) == { s \in lister : SecretKey(s) = key }

\* The origin secret that a TLS entry names, as the lister holds it.
OriginGet(lister, name) == SecretGet(lister, SecretKey(OriginSecret(name, "")))

makeTargetSecret(originSecret, ci, gatewayServiceNamespace) ==
  [ns |-> gatewayServiceNamespace, owner |-> ci.name, origin |-> originSecret.origin,
   data |-> originSecret.data]

\* MakeDesiredSecrets returns an error when the lister lacks an origin secret.
OriginsListed(ci, lister) == \A i \in DOMAIN ci.tls : OriginGet(lister, ci.tls[i]) # {}

RECURSIVE MakeDesiredSecretsFrom(_, _, _, _)
MakeDesiredSecretsFrom(config, tls, ci, lister) ==
  IF tls = << >> THEN << >>
  ELSE LET originSecret == CHOOSE s \in OriginGet(lister, Head(tls)) : TRUE
           gatewaySvcNamespaces == GetGatewaySvcNamespaces(config)
       IN [i \in DOMAIN gatewaySvcNamespaces |->
             makeTargetSecret(originSecret, ci, gatewaySvcNamespaces[i])]
          \o MakeDesiredSecretsFrom(config, Tail(tls), ci, lister)

\* One replica per TLS entry and per gateway service namespace, in that order.
MakeDesiredSecrets(config, ci, lister) == MakeDesiredSecretsFrom(config, ci.tls, ci, lister)

\* Secrets selected by the ingress label of ci.
MakeSecretSelector(set, ci) == { s \in set : s.owner = ci.name }

GetOriginSecrets(ci) == Range(ci.tls)

OriginRef(origin) == << "origin", origin >>
ReplicaRef(s) == << "replica", s >>

\* ------------------------------------------------------------ config store
\* ConfigMap.Data is a map from string to string.
NoData == [k \in {} |-> ""]

TLSConfigName == "config-tls"
IstioConfigName == "config-istio"
DomainConfigName == "config-domain"

AutoTLS == "AUTO"
ManualTLS == "MANUAL"
tlsModes == [raw \in {"AUTO", "MANUAL"} |-> IF raw = "AUTO" THEN AutoTLS ELSE ManualTLS]
TLSModeKey == "tls-mode"

\* Values of tls-mode in the config maps of the model.
RawModes == {"AUTO", "MANUAL", "UNSUPPORTED", "auto", ""}

\* A parse that fails on every value of tls-mode but AUTO.
OnlyAutoFromConfigMap(data) ==
  IF TLSModeKey \in DOMAIN data /\ data[TLSModeKey] = "AUTO"
  THEN [config |-> {[TLSMode |-> AutoTLS]}, err |-> FALSE]
  ELSE [config |-> {}, err |-> TRUE]

\* NewConfigFromConfigMap of package tls; a *Config is a set with one member,
\* nil the empty set.
NewConfigFromConfigMap(data) ==
  IF TLSModeKey \notin DOMAIN data
  THEN [config |-> {[TLSMode |-> ManualTLS]}, err |-> FALSE]
  ELSE IF data[TLSModeKey] \in DOMAIN tlsModes
  THEN [config |-> {[TLSMode |-> tlsModes[data[TLSModeKey]]]}, err |-> FALSE]
  ELSE [config |-> {}, err |-> TRUE]

\* The Istio fragment: one ingress gateway per "gateway.<name>" key, its value
\* the URL of the gateway's service; a map without a gateway does not parse.
GatewayKey == "gateway.knative-ingress-gateway"

NewIstioFromConfigMap(data) ==
  IF GatewayKey \notin DOMAIN data THEN [config |-> {}, err |-> TRUE]
  ELSE [config |-> {[IngressGateways |->
                       << [GatewayName |-> "knative-ingress-gateway",
                           ServiceURL |-> data[GatewayKey]] >>]},
        err |-> FALSE]

\* The domain fragment: the domain suffix is the key of the map; a map without
\* a key does not parse.
DomainSuffixes == {"example.com", "example.org"}

NewDomainFromConfigMap(data) ==
  IF DOMAIN data = {} THEN [config |-> {}, err |-> TRUE]
  ELSE [config |-> {[Domain |-> CHOOSE d \in DOMAIN data : TRUE]}, err |-> FALSE]

\* The config maps that the watcher delivers.
ConfigMaps ==
  { [name |-> TLSConfigName, data |-> d] :
      d \in {NoData} \cup { [k \in {TLSModeKey} |-> raw] : raw \in RawModes } }
  \cup { [name |-> IstioConfigName, data |-> d] :
           d \in {NoData} \cup { [k \in {GatewayKey} |-> url] : url \in ServiceURLs } }
  \cup { [name |-> DomainConfigName, data |-> d] :
           d \in {NoData} \cup { [k \in {suffix} |-> ""] : suffix \in DomainSuffixes } }

\* The constructor that the store runs for a config map of that name.
Constructor(cm) ==
  CASE cm.name = TLSConfigName -> NewConfigFromConfigMap(cm.data)
    [] cm.name = IstioConfigName -> NewIstioFromConfigMap(cm.data)
    [] OTHER -> NewDomainFromConfigMap(cm.data)

\* The snapshot after the store has taken in a parsed fragment.
Stored(snapshot, cm, parsed) ==
  LET c == CHOOSE x \in parsed.config : TRUE IN
  CASE cm.name = TLSConfigName -> [snapshot EXCEPT !.TLSMode = c.TLSMode]
    [] cm.name = IstioConfigName -> [snapshot EXCEPT !.Istio = c.IngressGateways]
    [] OTHER -> [snapshot EXCEPT !.Domain = c.Domain]

\* A store that takes the zero value of a fragment that did not parse.
StoreAlways(snapshot, cm, parsed) ==
  IF parsed.err
  THEN CASE cm.name = TLSConfigName -> [snapshot EXCEPT !.TLSMode = ""]
         [] cm.name = IstioConfigName -> [snapshot EXCEPT !.Istio = << >>]
         [] OTHER -> [snapshot EXCEPT !.Domain = ""]
  ELSE Stored(snapshot, cm, parsed)

\* UntypedStore.OnConfigChanged: a fragment that does not parse is logged and
\* dropped, the snapshot stays.
StoreIfParsed(snapshot, cm, parsed) ==
  IF parsed.err THEN snapshot ELSE Stored(snapshot, cm, parsed)

\* The snapshot that the store holds when the controllers start.
DefaultConfig ==
  [Istio |-> IngressGateways,
   TLSMode |-> ManualTLS,
   Domain |-> "example.com"]

NoChange == [name |-> "none", data |-> NoData, config |-> {}, err |-> FALSE]

\* What a caller holds of the store: nothing yet, or a Config that shares
\* memory with the store's snapshot (alias) or not, mutated by the caller or not.
NotLoaded == [held |-> FALSE, alias |-> FALSE, mutated |-> FALSE, value |-> DefaultConfig]

\* A Load that hands out the store's own objects.
LoadShared(snapshot) ==
  [held |-> TRUE, alias |-> TRUE, mutated |-> FALSE, value |-> snapshot]

\* Store.Load: a new Config made of deep copies of the fragments.
Load(snapshot) ==
  [held |-> TRUE, alias |-> FALSE, mutated |-> FALSE, value |-> snapshot]

\* What the caller of TestStoreImmutableConfig writes into the Config it loaded.
MutatedConfig(config) ==
  [config EXCEPT !.Istio = << [GatewayName |-> "mutated", ServiceURL |-> "mutated"] >>,
                 !.TLSMode = AutoTLS]

\* ------------------------------------------------------------ initial state
NoStatus == [cond |-> "none", og |-> 0]

\* The origin secret that the TLS entry of ClusterIngress o names.
OriginOf(o) == IF o = "A" THEN "cert-a" ELSE IF o = "B" THEN "cert-b" ELSE "cert-none"

NewIngress(o, fin) ==
  [name |-> o, exists |-> TRUE, deleting |-> FALSE, fin |-> fin,
   tls |-> << OriginOf(o) >>, gen |-> 1, status |-> NoStatus, rv |-> 1]

NoGateway == [servers |-> {}, rv |-> 0]

IdleWk ==
  [pc |-> "idle", key |-> NoOwner, ci |-> NewIngress(NoOwner, << >>), orig |-> NoStatus,
   err |-> FALSE, plan |-> << >>, gws |-> << >>, gwc |-> NoGateway, want |-> {},
   secs |-> << >>, nss |-> << >>, dl |-> {}, keep |-> {}, nw |-> 0, su |-> 0,
   call |-> "none", sw |-> "none", ret |-> "none", clean |-> FALSE, idem |-> FALSE,
   config |-> DefaultConfig]

\* A ClusterIngress that the store has removed (or never held).
Gone(o) == [NewIngress(o, << >>) EXCEPT !.exists = FALSE, !.tls = << >>, !.rv = 0]

\* The state after construction: listers in sync, no child object written yet.
InitWith(objs, vs, nfail, nspec) ==
  /\ ingress = objs
  /\ ingressC = objs
  /\ gateway = [g \in GatewayNames |-> [servers |-> {}, rv |-> 1]]
  /\ gatewayC = gateway
  /\ secrets = { OriginSecret(OriginOf(o), "v1") : o \in Owners }
  /\ secretsC = secrets
  /\ vsvc = vs
  /\ vsvcC = vs
  /\ track = {}
  /\ mutex = {}
  /\ wk = [o \in Owners |-> IdleWk]
  /\ stable = [k \in Keys |-> FALSE]
  /\ failures = nfail
  /\ specChanges = nspec
  /\ deletedByFinalizer = {}
  /\ aborted = {}
  /\ configStore = DefaultConfig
  /\ lastChange = NoChange
  /\ pure = NoCall
  /\ loaded = NotLoaded

\* The Certificate reconciler's objects.
CertificateKey == << "foo", "knCert" >>
NoCertStatus == [dns |-> << >>, ready |-> FALSE]
NoKnCert == [exists |-> FALSE, dns |-> << >>, status |-> NoCertStatus, rv |-> 0]
NoCmCert == [exists |-> FALSE, dns |-> << >>, ready |-> FALSE, owner |-> NoOwner, rv |-> 0]

IdleCw ==
  [pc |-> "idle", key |-> NoOwner, cert |-> NoKnCert, orig |-> NoCertStatus, err |-> FALSE, nw |-> 0,
   su |-> 0, call |-> "none", sw |-> "none", ret |-> "none", clean |-> FALSE, idem |-> FALSE]

\* Spec.DNSNames of the Knative Certificates of the model.
CertDNSNames ==
  { << << "a", "x", "example", "com" >>, << "b", "x", "example", "com" >> >>,
    << << "y", "example", "com" >>, << "a", "x", "example", "com" >> >> }

\* A cert-manager Certificate left behind with other DNS names.
StaleCmCert ==
  [exists |-> TRUE, dns |-> << << "*", "example", "com" >> >>, ready |-> FALSE,
   owner |-> CertificateKey[2], rv |-> 1]

\* A cert-manager Certificate of the same name that another object controls.
ForeignCmCert == [StaleCmCert EXCEPT !.owner = "other"]

\* The Route reconciler's objects.
RouteKey == << "ns", "r" >>
NoRouteStatus == [init |-> FALSE, traffic |-> "none", domain |-> << >>, ingress |-> "none"]
NoRoute == [exists |-> FALSE, targets |-> {}, status |-> NoRouteStatus, rv |-> 0]
NoKid == [exists |-> FALSE, spec |-> << >>, ready |-> FALSE, rv |-> 0]
Children == {"certificate", "clusterIngress", "service"}

IdleRw ==
  [pc |-> "idle", key |-> NoOwner, route |-> NoRoute, orig |-> NoRouteStatus, t |-> {}, err |-> FALSE,
   nw |-> 0, su |-> 0, call |-> "none", sw |-> "none", ret |-> "none", clean |-> FALSE,
   idem |-> FALSE, config |-> DefaultConfig, built |-> "none"]

\* Names of the traffic targets of the Routes of the model ("" is the default target).
RouteTargets == { {""}, {"", "v1"} }

\* A child of the Route left behind with another spec.
StaleKid == [exists |-> TRUE, spec |-> << << "stale" >> >>, ready |-> FALSE, rv |-> 1]

NoRoutes ==
  /\ route = NoRoute
  /\ routeC = route
  /\ kids = [k \in Children |-> NoKid]
  /\ kidsC = kids
  /\ cfgReady = FALSE
  /\ cfgReadyC = cfgReady
  /\ rw = IdleRw
  /\ rw2 = IdleRw
  /\ routeQueue = FALSE
  /\ routeTracker = {}

OnlyA(f) == [o \in Owners |-> IF o = "A" THEN NewIngress(o, f) ELSE Gone(o)]
VsOfA(v) == [o \in Owners |-> IF o = "A" THEN v ELSE "absent"]
NoIngress == [o \in Owners |-> Gone(o)]

\* No Certificate in the store, no Certificate reconcile under way.
NoCertificates ==
  /\ knCert = NoKnCert
  /\ knCertC = knCert
  /\ cmCert = NoCmCert
  /\ cmCertC = cmCert
  /\ cw = IdleCw

\* One ClusterIngress, A, through its whole life: with store failures, or with
\* an edit of the spec, or (later revision) with a VirtualService in the way.
InitClusterIngress ==
  /\ kind = "ClusterIngress"
  /\ build \in Builds
  /\ enableReconcilingGateway \in BOOLEAN
  /\ \/ \E f \in {<< >>, << OtherFinalizer >>} :
          InitWith(OnlyA(f), VsOfA("absent"), MaxFailures, 0)
     \/ /\ enableReconcilingGateway
        /\ InitWith(OnlyA(<< >>), VsOfA("absent"), 0, MaxSpecChanges)
     \/ /\ build = 2 /\ enableReconcilingGateway
        /\ \E v \in {"stale", "foreign"} :
             InitWith(OnlyA(<< >>), VsOfA(v), MaxFailures, 0)
  /\ NoCertificates
  /\ NoRoutes

\* One Knative Certificate; its cert-manager Certificate is absent or stale.
InitCertificate ==
  /\ kind = "Certificate"
  /\ build = 2
  /\ enableReconcilingGateway = FALSE
  /\ InitWith(NoIngress, VsOfA("absent"), MaxFailures, 0)
  /\ \E names \in CertDNSNames :
       knCert = [NoKnCert EXCEPT !.exists = TRUE, !.dns = names, !.rv = 1]
  /\ knCertC = knCert
  /\ cmCert \in {NoCmCert, StaleCmCert, ForeignCmCert}
  /\ cmCertC = cmCert
  /\ cw = IdleCw
  /\ NoRoutes

\* One Route; its Configuration has a ready revision or not yet; its
\* Certificate is absent or stale.
InitRouteWith(nfail, nspec) ==
  /\ kind = "Route"
  /\ build = 2
  /\ enableReconcilingGateway = FALSE
  /\ InitWith(NoIngress, VsOfA("absent"), nfail, nspec)
  /\ NoCertificates
  /\ \E names \in RouteTargets :
       route = [NoRoute EXCEPT !.exists = TRUE, !.targets = names, !.rv = 1]
  /\ routeC = route
  /\ \E c \in {NoKid, StaleKid} :
       kids = [k \in Children |-> IF k = "certificate" THEN c ELSE NoKid]
  /\ kidsC = kids
  /\ cfgReady \in BOOLEAN
  /\ cfgReadyC = cfgReady
  /\ rw = IdleRw
  /\ rw2 = IdleRw
  /\ routeQueue = TRUE
  /\ routeTracker = {}

InitRoute == InitRouteWith(MaxFailures, 0) \/ InitRouteWith(0, MaxSpecChanges)

Init ==
  /\ audit = TRUE
  /\ InitClusterIngress \/ InitCertificate \/ InitRoute

\* Two ClusterIngresses that share the gateway, no store failure but conflicts.
InitShared ==
  /\ kind = "ClusterIngress"
  /\ build \in Builds
  /\ enableReconcilingGateway = TRUE
  /\ audit = FALSE
  /\ InitWith([o \in Owners |-> NewIngress(o, << >>)], VsOfA("absent"), 0, 0)
  /\ NoCertificates
  /\ NoRoutes

\* ------------------------------------------------- ClusterIngress reconciler
certVars == << knCert, knCertC, cmCert, cmCertC, cw >>
routeVars == << route, routeC, kids, kidsC, cfgReady, cfgReadyC, rw, rw2, routeQueue,
               routeTracker >>
configVars == << configStore, lastChange, loaded >>
cfg == << build, enableReconcilingGateway, audit, kind, pure, certVars, routeVars, configVars >>
caches == << ingressC, gatewayC, secretsC, vsvcC >>
bounds == << failures, specChanges >>
ghosts == << deletedByFinalizer, aborted >>

\* The caches that a reconcile of o reads agree with the store.
Synced(o) ==
  /\ ingressC[o] = ingress[o]
  /\ gatewayC = gateway
  /\ secretsC = secrets
  /\ vsvcC[o] = vsvc[o]

\* A comparison of the identity of two copies, which are never the same object.
SameObject(x, y) == FALSE

\* equality.Semantic.DeepEqual / reflect.DeepEqual on the values of the model.
DeepEqual(x, y) == x = y

\* The finalizer test as a search of the whole list.
FinalizerIsPresent(ci) == clusterIngressFinalizer \in Range(ci.fin)

\* The finalizer test with its index off by one.
FinalizerIsSecond(ci) == Len(ci.fin) > 1 /\ ci.fin[2] = clusterIngressFinalizer

\* "If our Finalizer is first": the test that opens reconcileDeletion.
FinalizerIsFirst(ci) == Len(ci.fin) > 0 /\ ci.fin[1] = clusterIngressFinalizer

\* A copy in which the desired servers replace the whole server list.
GatewayCopyAll(gw, ci, desired) == UpdateGateway(gw, desired, gw.servers)

\* The copy of the gateway that reconcileGateway hands to Update: the servers
\* of ci, as found in the gateway that was read, give way to the desired ones.
GatewayCopy(gw, ci, desired) == UpdateGateway(gw, desired, GetServers(gw, ci))

\* A cleanup step of the deletion path of o has returned an error.
AbortedBy(o, r) == IF r.ci.deleting THEN aborted \cup {o} ELSE aborted

\* A body whose converge path writes the gateways before it adds the finalizer.
reconcileGatewayFirst(ci) ==
  IF ci.deleting
  THEN IF ~FinalizerIsFirst(ci) THEN << >>
       ELSE IF build = 2 /\ enableReconcilingGateway THEN << "gw", "del", "rmfin" >>
       ELSE << "gw", "rmfin" >>
  ELSE IF build = 1
       THEN IF enableReconcilingGateway THEN << "vs", "sec1", "gw", "fin" >> ELSE << "vs" >>
       ELSE << "vs", "gw", "fin", "sec", "del" >>

\* The steps of the reconcile body for ci, in order: the deletion path when ci
\* carries a deletion timestamp, the converge path otherwise.
reconcile(ci) ==
  IF ci.deleting
  THEN IF ~FinalizerIsFirst(ci) THEN << >>
       ELSE IF build = 2 /\ enableReconcilingGateway THEN << "gw", "del", "rmfin" >>
       ELSE << "gw", "rmfin" >>
  ELSE IF build = 1
       THEN IF enableReconcilingGateway THEN << "vs", "fin", "sec1", "gw" >> ELSE << "vs" >>
       ELSE << "vs", "fin", "gw", "sec", "del" >>

\* A read of the configuration that goes to the store.
FromStore(r) == configStore

\* config.FromContext(ctx): the Config that Reconcile put into the context.
FromContext(r) == r.config

\* c.configStore.ToContext(ctx): the context carries what Load returns.
ToContext(store) == Load(store).value

\* Move on to the first step of plan (the status write-back when none is left).
Enter(r, plan) ==
  IF plan = << >> THEN [r EXCEPT !.pc = "status", !.plan = << >>]
  ELSE LET p == Head(plan)
           q == [r EXCEPT !.pc = p, !.plan = Tail(plan)]
       IN CASE p = "gw" ->
                 [q EXCEPT !.gws = gatewayNamesFromContext(FromContext(r)),
                           !.want = IF r.ci.deleting THEN {} ELSE MakeServers(r.ci)]
            [] p = "sec" ->
                 IF ~OriginsListed(r.ci, secretsC)
                 THEN [r EXCEPT !.pc = "status", !.plan = << >>, !.err = TRUE]
                 ELSE LET desiredSecrets == MakeDesiredSecrets(FromContext(r), r.ci, secretsC)
                      IN [q EXCEPT !.secs = desiredSecrets,
                                   !.keep = { SecretKey(d) : d \in Range(desiredSecrets) }]
            [] p = "del" ->
                 [q EXCEPT !.nss = GetGatewaySvcNamespaces(FromContext(r)), !.dl = {},
                           !.keep = IF r.ci.deleting THEN {} ELSE r.keep]
            [] p = "sec1" ->
                 [q EXCEPT !.nss = GetGatewaySvcNamespaces(FromContext(r)), !.dl = {}]
            [] OTHER -> q

\* An error that is logged and not returned: the body goes on.
FailAndGoOn(r) == Enter([r EXCEPT !.err = TRUE], r.plan)

\* A failure that throws away what the body has done to the status.
FailWithoutStatus(r) ==
  [r EXCEPT !.pc = "status", !.plan = << >>, !.err = TRUE, !.ci.status = r.orig]

\* The body returns an error: only the status write-back is left.
Fail(r) == [r EXCEPT !.pc = "status", !.plan = << >>, !.err = TRUE]

\* The client call a converge step issues for an object the lister has or has not.
Write(found) == IF found THEN "update" ELSE "create"

InitializeConditions(st) == IF st.cond = "none" THEN [st EXCEPT !.cond = "init"] ELSE st

\* Reconcile, up to the call of the body: load the object from the lister, copy it.
ReconcileKey(o, key) ==
  /\ kind = "ClusterIngress"
  /\ wk[o].pc = "idle"
  /\ LET split == SplitMetaNamespaceKey(key)
         original == ingressC[split.name] IN
     IF split.err
     THEN wk' = [wk EXCEPT ![o] = InvalidKey(IdleWk)]
     ELSE IF ~original.exists
     THEN wk' = [wk EXCEPT ![o] =
                   [IdleWk EXCEPT !.pc = "done", !.key = split.name, !.ret = "nil"]]
     ELSE LET ci == IF original.deleting THEN original
                    ELSE [original EXCEPT !.status = InitializeConditions(@)]
              r == [IdleWk EXCEPT !.key = split.name, !.ci = ci, !.orig = original.status,
                                  !.config = ToContext(configStore),
                                  !.clean = audit /\ Synced(o),
                                  !.idem = audit /\ stable[o] /\ Synced(o)]
          IN wk' = [wk EXCEPT ![o] = Enter(r, reconcile(ci))]
  /\ UNCHANGED << cfg, ingress, gateway, secrets, vsvc, caches, track, mutex, stable,
                  bounds, ghosts >>

\* The worker of o takes a key from the queue and calls Reconcile with it.
Reconcile(o) == \E key \in WorkKeys(<< o >>) : ReconcileKey(o, key)

\* The status marks of a body whose VirtualService is in place.
MarkReady(ci) == [ci EXCEPT !.status = [cond |-> "ready", og |-> ci.gen]]

reconcileVirtualService(o) ==
  /\ wk[o].pc = "vs"
  /\ LET r == wk[o]
         seen == vsvcC[o]
     IN CASE seen = "foreign" ->
               /\ wk' = [wk EXCEPT ![o] =
                           Fail([r EXCEPT !.ci.status.cond = "notowned", !.call = "none"])]
               /\ UNCHANGED << vsvc, failures >>
          [] seen = "owned" ->
               /\ wk' = [wk EXCEPT ![o] =
                           Enter([r EXCEPT !.ci = MarkReady(@), !.call = "none"], r.plan)]
               /\ UNCHANGED << vsvc, failures >>
          [] OTHER ->
               \* Create (lister: not found) or Update (spec differs)
               \E ok \in BOOLEAN :
                 LET c == [r EXCEPT !.nw = @ + 1, !.call = Write(seen # "absent")] IN
                 /\ ~ok => failures > 0
                 /\ failures' = IF ok THEN failures ELSE failures - 1
                 /\ IF ok /\ vsvc[o] = seen
                    THEN /\ vsvc' = [vsvc EXCEPT ![o] = "owned"]
                         /\ wk' = [wk EXCEPT ![o] = Enter([c EXCEPT !.ci = MarkReady(@)], r.plan)]
                    ELSE /\ vsvc' = vsvc
                         /\ wk' = [wk EXCEPT ![o] = Fail(c)]
  /\ UNCHANGED << cfg, ingress, gateway, secrets, caches, track, mutex, stable,
                  specChanges, ghosts >>

\* A test that takes a set to hold an item only when it holds nothing else.
HasOnly(set, item) == set = {item}

\* sets.String.Has
Has(set, item) == item \in set

ensureFinalizer(o) ==
  /\ wk[o].pc = "fin"
  /\ LET r == wk[o]
         finalizers == Range(r.ci.fin)
     IN IF Has(finalizers, clusterIngressFinalizer)
        THEN /\ wk' = [wk EXCEPT ![o] = Enter(r, r.plan)]
             /\ UNCHANGED << ingress, failures >>
        ELSE \E ok \in BOOLEAN :
               /\ ~ok => failures > 0
               /\ failures' = IF ok THEN failures ELSE failures - 1
               /\ IF ok /\ ingress[o].exists /\ ingress[o].rv = r.ci.rv
                  THEN /\ ingress' = [ingress EXCEPT
                             ![o].fin = SortedList(finalizers \cup {clusterIngressFinalizer}),
                             ![o].rv = @ + 1]
                       /\ wk' = [wk EXCEPT ![o] = Enter([r EXCEPT !.nw = @ + 1], r.plan)]
                  ELSE /\ ingress' = ingress
                       /\ wk' = [wk EXCEPT ![o] = Fail([r EXCEPT !.nw = @ + 1])]
  /\ UNCHANGED << cfg, gateway, secrets, vsvc, caches, track, mutex, stable,
                  specChanges, ghosts >>

\* After the last gateway the body moves on; otherwise the next gateway is due.
NextGateway(r) ==
  IF Len(r.gws) <= 1 THEN Enter(r, r.plan) ELSE [r EXCEPT !.pc = "gw", !.gws = Tail(@)]

\* reconcileGateway up to its Update call: take the lock (build 1), read the
\* gateway from the lister, compare the owner's servers with the desired ones.
reconcileGateway(o) ==
  /\ wk[o].pc = "gw"
  /\ build = 1 => mutex = {}
  /\ LET r == wk[o]
         gw == gatewayC[Head(r.gws)]
         existing == GetServers(gw, r.ci)
     IN IF DeepEqual(existing, r.want)
        THEN /\ wk' = [wk EXCEPT ![o] = NextGateway(r)]
             /\ mutex' = mutex
        ELSE /\ wk' = [wk EXCEPT ![o] = [r EXCEPT !.pc = "gwupd", !.gwc = gw]]
             /\ mutex' = IF build = 1 THEN {o} ELSE mutex
  /\ UNCHANGED << cfg, ingress, gateway, secrets, vsvc, caches, track, stable,
                  bounds, ghosts >>

\* The Update call of reconcileGateway and its return (which releases the lock).
reconcileGatewayUpdate(o) ==
  /\ wk[o].pc = "gwupd"
  /\ LET r == wk[o]
         g == Head(r.gws)
         copy == GatewayCopy(r.gwc, r.ci, r.want)
     IN \E ok \in BOOLEAN :
          /\ ~ok => failures > 0
          /\ failures' = IF ok THEN failures ELSE failures - 1
          /\ IF ok /\ gateway[g].rv = copy.rv
             THEN /\ gateway' = [gateway EXCEPT ![g] = [copy EXCEPT !.rv = @ + 1]]
                  /\ wk' = [wk EXCEPT ![o] = NextGateway([r EXCEPT !.nw = @ + 1])]
                  /\ aborted' = aborted
             ELSE /\ gateway' = gateway
                  /\ wk' = [wk EXCEPT ![o] = Fail([r EXCEPT !.nw = @ + 1])]
                  /\ aborted' = AbortedBy(o, r)
  /\ mutex' = mutex \ {o}
  /\ UNCHANGED << cfg, ingress, secrets, vsvc, caches, track, stable,
                  specChanges, deletedByFinalizer >>

\* existing.DeepCopy() with Data = desired.Data
DataOverwritten(existing, desired) == [existing EXCEPT !.data = desired.data]

\* The converge step that both revisions of reconcileCertSecret end with:
\* Create when the lister has no secret of the desired name, Update when the
\* data of the one it has differs, nothing otherwise; r is the call, next what
\* it becomes when the step returns nil.
convergeSecret(o, r, desired, next) ==
  LET found == SecretGet(secretsC, SecretKey(desired)) IN
  IF found = {}
  THEN \E ok \in BOOLEAN :
         /\ ~ok => failures > 0
         /\ failures' = IF ok THEN failures ELSE failures - 1
         /\ IF ok /\ SecretGet(secrets, SecretKey(desired)) = {}
            THEN /\ secrets' = secrets \cup {desired}
                 /\ wk' = [wk EXCEPT ![o] = [next EXCEPT !.nw = @ + 1, !.call = "create"]]
            ELSE /\ secrets' = secrets
                 /\ wk' = [wk EXCEPT ![o] = Fail([r EXCEPT !.nw = @ + 1, !.call = "create"])]
  ELSE LET existing == CHOOSE s \in found : TRUE IN
       IF DeepEqual(existing.data, desired.data)
       THEN /\ wk' = [wk EXCEPT ![o] = [next EXCEPT !.call = "none"]]
            /\ UNCHANGED << secrets, failures >>
       ELSE \E ok \in BOOLEAN :
              /\ ~ok => failures > 0
              /\ failures' = IF ok THEN failures ELSE failures - 1
              /\ IF ok /\ existing \in secrets
                 THEN /\ secrets' = (secrets \ {existing})
                                      \cup {DataOverwritten(existing, desired)}
                      /\ wk' = [wk EXCEPT ![o] = [next EXCEPT !.nw = @ + 1, !.call = "update"]]
                 ELSE /\ secrets' = secrets
                      /\ wk' = [wk EXCEPT ![o] = Fail([r EXCEPT !.nw = @ + 1, !.call = "update"])]

\* Build 2: converge the next desired replica (tracked before it is read).
reconcileCertSecret(o) ==
  /\ wk[o].pc = "sec"
  /\ LET r == wk[o]
     IN IF r.secs = << >>
        THEN /\ wk' = [wk EXCEPT ![o] = Enter(r, r.plan)]
             /\ UNCHANGED << track, secrets, failures >>
        ELSE LET desired == Head(r.secs) IN
             /\ track' = track \cup { << ReplicaRef(SecretKey(desired)), o >>,
                                      << OriginRef(desired.origin), o >> }
             /\ convergeSecret(o, r, desired, [r EXCEPT !.secs = Tail(@)])
  /\ UNCHANGED << cfg, ingress, gateway, vsvc, caches, mutex, stable,
                  specChanges, ghosts >>

\* Build 2: per gateway service namespace, list the owner's replicas from the
\* lister and delete (after untracking) each one that is not desired.
deleteUnusedSecrets(o) ==
  /\ wk[o].pc = "del"
  /\ LET r == wk[o]
     IN IF r.dl = {}
        THEN /\ IF r.nss = << >>
                THEN wk' = [wk EXCEPT ![o] = Enter(r, r.plan)]
                ELSE wk' = [wk EXCEPT ![o] = [r EXCEPT
                       !.dl = { s \in MakeSecretSelector(secretsC, r.ci) :
                                  s.ns = Head(r.nss) /\ SecretKey(s) \notin r.keep },
                       !.nss = Tail(@)]]
             /\ UNCHANGED << track, secrets, failures, ghosts >>
        ELSE \E s \in r.dl :
             /\ track' = track \ { << ReplicaRef(SecretKey(s)), o >>,
                                    << OriginRef(s.origin), o >> }
             /\ \E ok \in BOOLEAN :
                  /\ ~ok => failures > 0
                  /\ failures' = IF ok THEN failures ELSE failures - 1
                  /\ IF ok /\ SecretGet(secrets, SecretKey(s)) # {}
                     THEN /\ secrets' = secrets \ SecretGet(secrets, SecretKey(s))
                          /\ deletedByFinalizer' =
                               IF r.ci.deleting THEN deletedByFinalizer \cup {s}
                               ELSE deletedByFinalizer
                          /\ aborted' = aborted
                          /\ wk' = [wk EXCEPT ![o] =
                                [r EXCEPT !.dl = @ \ {s}, !.nw = @ + 1]]
                     ELSE /\ UNCHANGED << secrets, deletedByFinalizer >>
                          /\ aborted' = AbortedBy(o, r)
                          /\ wk' = [wk EXCEPT ![o] = Fail([r EXCEPT !.nw = @ + 1])]
  /\ UNCHANGED << cfg, ingress, gateway, vsvc, caches, mutex, stable, specChanges >>

\* Build 1, reconcileCertSecrets: the head of the loop over the gateway service
\* namespaces; cleanUpUnsedSecret lists the owner's replicas of the namespace.
reconcileCertSecretsB1(o) ==
  /\ wk[o].pc = "sec1"
  /\ LET r == wk[o] IN
     IF r.nss = << >>
     THEN wk' = [wk EXCEPT ![o] = Enter(r, r.plan)]
     ELSE wk' = [wk EXCEPT ![o] = [r EXCEPT
            !.pc = "sec1d",
            !.dl = { s \in MakeSecretSelector(secretsC, r.ci) :
                       s.ns = Head(r.nss) /\ s.origin \notin GetOriginSecrets(r.ci) }]]
  /\ UNCHANGED << cfg, ingress, gateway, secrets, vsvc, caches, track, mutex, stable,
                  bounds, ghosts >>

\* Build 1: untrack the origin of a listed replica that is out of use, delete it.
cleanUpUnsedSecret(o) ==
  /\ wk[o].pc = "sec1d"
  /\ LET r == wk[o]
     IN IF r.dl = {}
        THEN /\ wk' = [wk EXCEPT ![o] = [r EXCEPT !.pc = "sec1c", !.secs = r.ci.tls]]
             /\ UNCHANGED << track, secrets, failures >>
        ELSE \E s \in r.dl :
             /\ track' = track \ { << OriginRef(s.origin), o >> }
             /\ \E ok \in BOOLEAN :
                  /\ ~ok => failures > 0
                  /\ failures' = IF ok THEN failures ELSE failures - 1
                  /\ IF ok /\ SecretGet(secrets, SecretKey(s)) # {}
                     THEN /\ secrets' = secrets \ SecretGet(secrets, SecretKey(s))
                          /\ wk' = [wk EXCEPT ![o] =
                                [r EXCEPT !.dl = @ \ {s}, !.nw = @ + 1]]
                     ELSE /\ secrets' = secrets
                          /\ wk' = [wk EXCEPT ![o] = Fail([r EXCEPT !.nw = @ + 1])]
  /\ UNCHANGED << cfg, ingress, gateway, vsvc, caches, mutex, stable, specChanges,
                  ghosts >>

\* Build 1, reconcileCertSecret: track the origin secret of the next TLS entry
\* and converge its copy, which is always made in istio-system.
reconcileCertSecretB1(o) ==
  /\ wk[o].pc = "sec1c"
  /\ LET r == wk[o]
     IN IF r.secs = << >>
        THEN /\ wk' = [wk EXCEPT ![o] = [r EXCEPT !.pc = "sec1", !.nss = Tail(@)]]
             /\ UNCHANGED << track, secrets, failures >>
        ELSE IF OriginGet(secretsC, Head(r.secs)) = {}
        THEN /\ wk' = [wk EXCEPT ![o] = Fail(r)]
             /\ UNCHANGED << track, secrets, failures >>
        ELSE LET originSecret == CHOOSE s \in OriginGet(secretsC, Head(r.secs)) : TRUE
                 desired == makeTargetSecret(originSecret, r.ci, IstioSystem) IN
             /\ track' = track \cup { << OriginRef(originSecret.origin), o >> }
             /\ convergeSecret(o, r, desired, [r EXCEPT !.secs = Tail(@)])
  /\ UNCHANGED << cfg, ingress, gateway, vsvc, caches, mutex, stable,
                  specChanges, ghosts >>

\* The store's handling of a write that leaves a deleting object without finalizers.
Settle(obj) == IF obj.deleting /\ obj.fin = << >> THEN Gone(obj.name) ELSE obj

\* ci.Finalizers[1:]
RemoveFirstFinalizer(finalizers) == Tail(finalizers)

\* The end of reconcileDeletion: (build 1) untrack the secrets of the spec, drop
\* the first finalizer of the copy and Update the object with it.
reconcileDeletion(o) ==
  /\ wk[o].pc = "rmfin"
  /\ LET r == wk[o]
         ci == [r.ci EXCEPT !.fin = RemoveFirstFinalizer(@)]
     IN /\ track' = IF build = 1
                    THEN track \ { << OriginRef(s), o >> : s \in Range(r.ci.tls) }
                    ELSE track
        /\ \E ok \in BOOLEAN :
             /\ ~ok => failures > 0
             /\ failures' = IF ok THEN failures ELSE failures - 1
             /\ IF ok /\ ingress[o].exists /\ ingress[o].rv = ci.rv
                THEN /\ ingress' = [ingress EXCEPT ![o] =
                           Settle([@ EXCEPT !.fin = ci.fin, !.tls = ci.tls, !.rv = @ + 1])]
                     /\ wk' = [wk EXCEPT ![o] =
                           Enter([r EXCEPT !.ci = ci, !.nw = @ + 1], << >>)]
                ELSE /\ ingress' = ingress
                     /\ wk' = [wk EXCEPT ![o] = Fail([r EXCEPT !.ci = ci, !.nw = @ + 1])]
  /\ UNCHANGED << cfg, gateway, secrets, vsvc, caches, mutex, stable, specChanges,
                  ghosts >>

\* The error of the body alone.
BodyError(r, sw) == r.err

\* The error that Reconcile returns: the error of a failed status write, else
\* the error of the body.
ReconcileError(r, sw) == IF sw = "failed" THEN TRUE ELSE r.err

\* What a finished Reconcile call leaves to look at.
Finished(r, sw) ==
  [IdleWk EXCEPT !.pc = "done", !.key = r.key, !.ci = r.ci, !.orig = r.orig,
                 !.err = r.err, !.nw = r.nw, !.su = r.su, !.clean = r.clean,
                 !.idem = r.idem, !.sw = sw, !.config = r.config,
                 !.ret = IF ReconcileError(r, sw) THEN "error" ELSE "nil"]

\* The tail of Reconcile: write the status back unless the body left it as it
\* was loaded; updateStatus re-reads the object from the lister.
updateStatus(o) ==
  /\ wk[o].pc = "status"
  /\ LET r == wk[o]
         cur == ingressC[o]
     IN /\ stable' = [stable EXCEPT ![o] = audit /\ ~r.err /\ r.clean]
        /\ IF DeepEqual(r.orig, r.ci.status)
           THEN /\ wk' = [wk EXCEPT ![o] = Finished(r, "skipped")]
                /\ UNCHANGED << ingress, failures >>
           ELSE IF ~cur.exists
           THEN /\ wk' = [wk EXCEPT ![o] = Finished(r, "failed")]
                /\ UNCHANGED << ingress, failures >>
           ELSE IF DeepEqual(cur.status, r.ci.status)
           THEN /\ wk' = [wk EXCEPT ![o] = Finished(r, "same")]
                /\ UNCHANGED << ingress, failures >>
           ELSE \E ok \in BOOLEAN :
                  /\ ~ok => failures > 0
                  /\ failures' = IF ok THEN failures ELSE failures - 1
                  /\ IF ok /\ ingress[o].exists /\ ingress[o].rv = cur.rv
                     THEN /\ ingress' = [ingress EXCEPT ![o].status = r.ci.status,
                                                        ![o].rv = @ + 1]
                          /\ wk' = [wk EXCEPT ![o] =
                                Finished([r EXCEPT !.su = @ + 1], "written")]
                     ELSE /\ ingress' = ingress
                          /\ wk' = [wk EXCEPT ![o] =
                                Finished([r EXCEPT !.su = @ + 1], "failed")]
  /\ UNCHANGED << cfg, gateway, secrets, vsvc, caches, track, mutex, specChanges,
                  ghosts >>

\* Reconcile has returned; the worker takes the next key.
Return(o) ==
  /\ wk[o].pc = "done"
  /\ wk' = [wk EXCEPT ![o] = IdleWk]
  /\ UNCHANGED << cfg, ingress, gateway, secrets, vsvc, caches, track, mutex, stable,
                  bounds, ghosts >>

\* ------------------------------------------------------------- environment
\* An external change to ClusterIngress o ends what `stable` and a running
\* reconcile of o assume.
Disturb(o) ==
  /\ stable' = [stable EXCEPT ![o] = FALSE]
  /\ wk' = [wk EXCEPT ![o].clean = FALSE, ![o].idem = FALSE]

\* The user deletes a ClusterIngress: the store sets the deletion timestamp and
\* removes the object once no finalizer is left.
UserDelete(o) ==
  /\ ingress[o].exists /\ ~ingress[o].deleting
  /\ ingress' = [ingress EXCEPT ![o] = Settle([@ EXCEPT !.deleting = TRUE, !.rv = @ + 1])]
  /\ Disturb(o)
  /\ UNCHANGED << cfg, gateway, secrets, vsvc, caches, track, mutex, bounds,
                  ghosts >>

\* The origin secret of ClusterIngress o gets new data (a renewed certificate).
RenewOrigin(o) ==
  /\ specChanges > 0
  /\ ingress[o].exists /\ ~ingress[o].deleting
  /\ OriginSecret(OriginOf(o), "v1") \in secrets
  /\ secrets' = (secrets \ {OriginSecret(OriginOf(o), "v1")})
                   \cup {OriginSecret(OriginOf(o), "v2")}
  /\ specChanges' = specChanges - 1
  /\ Disturb(o)
  /\ UNCHANGED << cfg, ingress, gateway, vsvc, caches, track, mutex, failures,
                  ghosts >>

\* The user removes the TLS entries from the spec.
SpecChange(o) ==
  /\ specChanges > 0
  /\ ingress[o].exists /\ ~ingress[o].deleting /\ ingress[o].tls # << >>
  /\ ingress' = [ingress EXCEPT ![o].tls = << >>, ![o].gen = @ + 1, ![o].rv = @ + 1]
  /\ specChanges' = specChanges - 1
  /\ Disturb(o)
  /\ UNCHANGED << cfg, gateway, secrets, vsvc, caches, track, mutex, failures,
                  ghosts >>

\* The controller that owns the other finalizer removes it from a deleting object.
ReleaseOtherFinalizer(o) ==
  /\ ingress[o].exists /\ ingress[o].deleting
  /\ OtherFinalizer \in Range(ingress[o].fin)
  /\ ingress' = [ingress EXCEPT ![o] =
        Settle([@ EXCEPT !.fin = SelectSeq(@, LAMBDA f : f # OtherFinalizer),
                         !.rv = @ + 1])]
  /\ Disturb(o)
  /\ UNCHANGED << cfg, gateway, secrets, vsvc, caches, track, mutex, bounds,
                  ghosts >>

\* Informer events reach the listers.
SyncIngress(o) ==
  /\ ingressC[o] # ingress[o]
  /\ ingressC' = [ingressC EXCEPT ![o] = ingress[o]]
  /\ UNCHANGED << cfg, ingress, gateway, gatewayC, secrets, secretsC, vsvc, vsvcC,
                  track, mutex, wk, stable, bounds, ghosts >>

SyncGateway(g) ==
  /\ gatewayC[g] # gateway[g]
  /\ gatewayC' = [gatewayC EXCEPT ![g] = gateway[g]]
  /\ UNCHANGED << cfg, ingress, ingressC, gateway, secrets, secretsC, vsvc, vsvcC,
                  track, mutex, wk, stable, bounds, ghosts >>

SyncSecrets ==
  /\ secretsC # secrets
  /\ secretsC' = secrets
  /\ UNCHANGED << cfg, ingress, ingressC, gateway, gatewayC, secrets, vsvc, vsvcC,
                  track, mutex, wk, stable, bounds, ghosts >>

SyncVirtualService(o) ==
  /\ vsvcC[o] # vsvc[o]
  /\ vsvcC' = [vsvcC EXCEPT ![o] = vsvc[o]]
  /\ UNCHANGED << cfg, ingress, ingressC, gateway, gatewayC, secrets, secretsC, vsvc,
                  track, mutex, wk, stable, bounds, ghosts >>

\* Every lister catches up with the store at once.
SyncAll ==
  /\ caches # << ingress, gateway, secrets, vsvc >>
  /\ ingressC' = ingress
  /\ gatewayC' = gateway
  /\ secretsC' = secrets
  /\ vsvcC' = vsvc
  /\ UNCHANGED << cfg, ingress, gateway, secrets, vsvc, track, mutex, wk, stable, bounds,
                  ghosts >>

\* --------------------------------------------------- Certificate reconciler
\* resources.MakeCertManagerCertificate: name and namespace of the Knative
\* Certificate, which is its controller, and the DNS names as they are.
MakeCertManagerCertificate(kc) ==
  [exists |-> TRUE, dns |-> kc.dns, ready |-> FALSE, owner |-> CertificateKey[2], rv |-> 0]

\* The desired cert-manager Certificate: the wildcard hosts, deduplicated, sorted.
makeCertManagerCertificate(kc) ==
  [exists |-> TRUE, dns |-> SortStrings(makeWildcardHosts(kc.dns)), ready |-> FALSE,
   owner |-> CertificateKey[2], rv |-> 0]

isCmCertificateReady(cm) == cm.ready

setCertStatus(kc, cm) ==
  [kc EXCEPT !.status.dns = cm.dns,
             !.status.ready = IF isCmCertificateReady(cm) THEN TRUE ELSE @]

CertSynced == knCertC = knCert /\ cmCertC = cmCert

ciVars == << build, enableReconcilingGateway, ingress, ingressC, gateway, gatewayC,
             secrets, secretsC, vsvc, vsvcC, track, mutex, wk, specChanges, ghosts,
             configVars >>

\* Reconcile of the Certificate, up to the call of the body.
CertificateReconcile ==
  /\ kind = "Certificate"
  /\ cw.pc = "idle"
  /\ \E key \in WorkKeys(CertificateKey) :
     LET split == SplitMetaNamespaceKey(key)
         original == knCertC IN
     IF split.err
     THEN cw' = InvalidKey(IdleCw)
     ELSE IF ~original.exists
     THEN cw' = [IdleCw EXCEPT !.pc = "done", !.key = split.name, !.ret = "nil"]
     ELSE cw' = [IdleCw EXCEPT !.pc = "cm", !.key = split.name, !.cert = original, !.orig = original.status,
                               !.clean = audit /\ CertSynced,
                               !.idem = audit /\ stable["certificate"] /\ CertSynced]
  /\ UNCHANGED << ciVars, routeVars, audit, kind, pure, knCert, knCertC, cmCert, cmCertC, stable, failures >>

\* An Update that sends the desired object under the resourceVersion of the
\* existing one.
DesiredInPlace(existing, desired) == [desired EXCEPT !.rv = existing.rv]

\* origin := cmCert.DeepCopy(); origin.Spec = desired.Spec
SpecOverwritten(existing, desired) == [existing EXCEPT !.dns = desired.dns]

\* The body: converge the cert-manager Certificate, then copy its state into
\* the status of the Knative Certificate.
reconcileCMCertificate ==
  /\ cw.pc = "cm"
  /\ LET r == cw
         desired == makeCertManagerCertificate(r.cert)
         seen == cmCertC
     IN IF seen.exists /\ DeepEqual(seen.dns, desired.dns)
        THEN /\ cw' = [r EXCEPT !.pc = "status", !.call = "none",
                                !.cert = setCertStatus(@, seen)]
             /\ UNCHANGED << cmCert, failures >>
        ELSE \E ok \in BOOLEAN :
               /\ ~ok => failures > 0
               /\ failures' = IF ok THEN failures ELSE failures - 1
               /\ LET stored == IF seen.exists
                                THEN [SpecOverwritten(seen, desired) EXCEPT !.rv = @ + 1]
                                ELSE [desired EXCEPT !.rv = 1]
                      accepted == IF seen.exists
                                  THEN cmCert.exists /\ cmCert.rv = seen.rv
                                  ELSE ~cmCert.exists
                  IN IF ok /\ accepted
                     THEN /\ cmCert' = stored
                          /\ cw' = [r EXCEPT !.pc = "status", !.nw = @ + 1,
                                             !.call = Write(seen.exists),
                                             !.cert = setCertStatus(@, stored)]
                     ELSE /\ cmCert' = cmCert
                          /\ cw' = [r EXCEPT !.pc = "status", !.nw = @ + 1,
                                             !.call = Write(seen.exists), !.err = TRUE]
  /\ UNCHANGED << ciVars, routeVars, audit, kind, pure, knCert, knCertC, cmCertC, stable >>

CertificateFinished(r, sw) ==
  [r EXCEPT !.pc = "done", !.sw = sw,
            !.ret = IF ReconcileError(r, sw) THEN "error" ELSE "nil"]

\* The tail of Reconcile of the Certificate, with its updateStatus.
CertificateUpdateStatus ==
  /\ cw.pc = "status"
  /\ LET r == cw
         cur == knCertC
     IN /\ stable' = [stable EXCEPT !["certificate"] = audit /\ ~r.err /\ r.clean]
        /\ IF DeepEqual(r.orig, r.cert.status)
           THEN /\ cw' = CertificateFinished(r, "skipped")
                /\ UNCHANGED << knCert, failures >>
           ELSE IF ~cur.exists
           THEN /\ cw' = CertificateFinished(r, "failed")
                /\ UNCHANGED << knCert, failures >>
           ELSE IF DeepEqual(cur.status, r.cert.status)
           THEN /\ cw' = CertificateFinished(r, "same")
                /\ UNCHANGED << knCert, failures >>
           ELSE \E ok \in BOOLEAN :
                  /\ ~ok => failures > 0
                  /\ failures' = IF ok THEN failures ELSE failures - 1
                  /\ IF ok /\ knCert.exists /\ knCert.rv = cur.rv
                     THEN /\ knCert' = [knCert EXCEPT !.status = r.cert.status, !.rv = @ + 1]
                          /\ cw' = CertificateFinished([r EXCEPT !.su = @ + 1], "written")
                     ELSE /\ knCert' = knCert
                          /\ cw' = CertificateFinished([r EXCEPT !.su = @ + 1], "failed")
  /\ UNCHANGED << ciVars, routeVars, audit, kind, pure, knCertC, cmCert, cmCertC >>

CertificateReturn ==
  /\ cw.pc = "done"
  /\ cw' = IdleCw
  /\ UNCHANGED << ciVars, routeVars, audit, kind, pure, knCert, knCertC, cmCert, cmCertC, stable, failures >>

\* cert-manager obtains the certificate: the Ready condition becomes True.
CertManagerIssues ==
  /\ cmCert.exists /\ ~cmCert.ready
  /\ cmCert' = [cmCert EXCEPT !.ready = TRUE, !.rv = @ + 1]
  /\ stable' = [stable EXCEPT !["certificate"] = FALSE]
  /\ cw' = [cw EXCEPT !.clean = FALSE, !.idem = FALSE]
  /\ UNCHANGED << ciVars, routeVars, audit, kind, pure, knCert, knCertC, cmCertC, failures >>

\* cert-manager takes the Ready condition back only from a Certificate whose
\* resource version is below this.
MaxCertVersion == 4

\* The certificate expires or its renewal fails: the Ready condition of the
\* cert-manager Certificate is no longer True.
CertManagerLosesReady ==
  /\ cmCert.exists /\ cmCert.ready
  /\ cmCert.rv < MaxCertVersion
  /\ cmCert' = [cmCert EXCEPT !.ready = FALSE, !.rv = @ + 1]
  /\ stable' = [stable EXCEPT !["certificate"] = FALSE]
  /\ cw' = [cw EXCEPT !.clean = FALSE, !.idem = FALSE]
  /\ UNCHANGED << ciVars, routeVars, audit, kind, pure, knCert, knCertC, cmCertC, failures >>

SyncKnCert ==
  /\ knCertC # knCert
  /\ knCertC' = knCert
  /\ UNCHANGED << ciVars, routeVars, audit, kind, pure, knCert, cmCert, cmCertC, cw, stable, failures >>

SyncCmCert ==
  /\ cmCertC # cmCert
  /\ cmCertC' = cmCert
  /\ UNCHANGED << ciVars, routeVars, audit, kind, pure, knCert, knCertC, cmCert, cw, stable, failures >>

CertificateWorker ==
  \/ CertificateReconcile
  \/ reconcileCMCertificate
  \/ CertificateUpdateStatus
  \/ CertificateReturn

\* --------------------------------------------------------- Route reconciler
\* "<name>.<namespace>.<domain>" of the Route of the model.
\* The labels of a domain suffix of the model.
DomainLabels(suffix) ==
  IF suffix = "example.com" THEN << "example", "com" >> ELSE << "example", "org" >>

routeDomain(config) == << "r", "ns" >> \o DomainLabels(config.Domain)

RECURSIVE InSomeOrder(_)
\* The members of a set in the order a range over a Go map may yield them.
InSomeOrder(S) ==
  IF S = {} THEN << >>
  ELSE LET x == CHOOSE y \in S : TRUE IN << x >> \o InSomeOrder(S \ {x})

\* Spec.DNSNames of the desired Certificate: the route domain and one name per
\* named traffic target, deduplicated and sorted.
makeCertificate(config, targets) ==
  LET named == SelectSeq(InSomeOrder(targets), LAMBDA name : name # "")
      dnsNames == << routeDomain(config) >> \o
                  [i \in DOMAIN named |-> << named[i] >> \o routeDomain(config)]
  IN SortStrings(dedup(dnsNames))

\* The desired spec of a child of the Route.
DesiredSpec(config, k, targets) ==
  IF k = "certificate" THEN makeCertificate(config, targets) ELSE << << k >> >>

\* The Ready condition of a Route: all traffic assigned and the ClusterIngress
\* ready.
RouteReady(st) == st.traffic = "assigned" /\ st.ingress = "ready"

RouteSynced == routeC = route /\ kidsC = kids /\ cfgReadyC = cfgReady

\* The Reconcile call of Route worker w.
RW(w) == IF w = 1 THEN rw ELSE rw2

\* Worker w's call becomes r; the other worker's stays.
SetRW(w, r) == IF w = 1 THEN rw' = r /\ rw2' = rw2 ELSE rw2' = r /\ rw' = rw

\* Reconcile of the Route, up to configureTraffic; the queue hands out a key
\* once, however often it was added.
RouteReconcileKey(w, key) ==
  /\ kind = "Route"
  /\ RW(w).pc = "idle"
  /\ LET split == SplitMetaNamespaceKey(key)
         original == routeC IN
     IF split.err
     THEN SetRW(w, InvalidKey(IdleRw)) /\ routeQueue' = routeQueue
     ELSE /\ routeQueue' = FALSE
          /\ IF ~original.exists
             THEN SetRW(w, [IdleRw EXCEPT !.pc = "done", !.key = split.name, !.ret = "nil"])
             ELSE SetRW(w, [IdleRw EXCEPT !.pc = "traffic", !.key = split.name,
                               !.config = ToContext(configStore),
                               !.route = [original EXCEPT !.status.init = TRUE],
                               !.orig = original.status,
                               !.clean = audit /\ RouteSynced,
                               !.idem = audit /\ stable["route"] /\ RouteSynced])
  /\ UNCHANGED << ciVars, certVars, audit, kind, pure, route, routeC, kids, kidsC, cfgReady,
                  cfgReadyC, routeTracker, stable, failures >>

\* A worker of the Route controller takes a key and calls Reconcile with it.
RouteReconcile(w) == \E key \in WorkKeys(RouteKey) : RouteReconcileKey(w, key)

\* A target error that is returned like any other error.
BadTargetEscalated(r) ==
  [r EXCEPT !.pc = "status", !.err = TRUE, !.route.status.traffic = "bad"]

\* badTarget.MarkBadTrafficTarget(&r.Status); return nil, nil: the body ends
\* without an error.
BadTarget(r) == [r EXCEPT !.pc = "status", !.route.status.traffic = "bad"]

\* The traffic builder reads the listers: a target without a ready revision is
\* a target error, any other error comes without a traffic configuration.
BuildTrafficConfiguration(w) ==
  /\ RW(w).pc = "traffic"
  /\ \E ok \in BOOLEAN :
       /\ ~ok => failures > 0
       /\ failures' = IF ok THEN failures ELSE failures - 1
       /\ SetRW(w, [RW(w) EXCEPT !.pc = "track",
                                 !.built = IF ~ok THEN "error"
                                           ELSE IF ~cfgReadyC THEN "bad" ELSE "built"])
  /\ UNCHANGED << ciVars, certVars, audit, kind, pure, route, routeC, kids, kidsC, cfgReady,
                  cfgReadyC, routeQueue, routeTracker, stable >>

\* The references that configureTraffic registers with the tracker: the
\* Configurations of the traffic configuration when the builder returned one.
TrackTargets(r) == IF r.built = "error" THEN {} ELSE {"Configuration"}

\* The rest of configureTraffic: register the targets with the tracker, then
\* mark the status; a target error ends the body with nil, any other error
\* is returned.
configureTraffic(w) ==
  /\ RW(w).pc = "track"
  /\ routeTracker' = routeTracker \cup TrackTargets(RW(w))
  /\ SetRW(w, CASE RW(w).built = "error" ->
                     [RW(w) EXCEPT !.pc = "status", !.err = TRUE,
                                   !.route.status.traffic = "unknown"]
                [] RW(w).built = "bad" -> BadTarget(RW(w))
                [] OTHER ->
                     [RW(w) EXCEPT !.pc = "revisions", !.t = RW(w).route.targets,
                                   !.route.status.traffic = "assigned"])
  /\ UNCHANGED << ciVars, certVars, audit, kind, pure, route, routeC, kids, kidsC, cfgReady,
                  cfgReadyC, routeQueue, stable, failures >>

\* reconcileTargetRevisions: its error ends the body.
reconcileTargetRevisions(w) ==
  /\ RW(w).pc = "revisions"
  /\ \E ok \in BOOLEAN :
       /\ ~ok => failures > 0
       /\ failures' = IF ok THEN failures ELSE failures - 1
       /\ SetRW(w, IF ok THEN [RW(w) EXCEPT !.pc = "certificate"]
                   ELSE [RW(w) EXCEPT !.pc = "status", !.err = TRUE])
  /\ UNCHANGED << ciVars, certVars, audit, kind, pure, route, routeC, kids, kidsC, cfgReady,
                  cfgReadyC, routeQueue, routeTracker, stable >>

\* What the body does with a child that is in place.
AfterChild(k, r, obj) ==
  CASE k = "certificate" ->
         [r EXCEPT !.pc = "clusterIngress",
                   !.route.status.domain = routeDomain(FromContext(r))]
    [] k = "clusterIngress" ->
         [r EXCEPT !.pc = "service",
                   !.route.status.ingress = IF obj.ready THEN "ready" ELSE "notready"]
    [] OTHER -> [r EXCEPT !.pc = "status"]

\* A store that takes every write, whatever it holds.
AcceptedAlways(seen, held) == TRUE

\* The store takes a Create when it holds no object of the name and an Update
\* when it holds the resourceVersion that the writer has read.
Accepted(seen, held) ==
  IF seen.exists THEN held.exists /\ held.rv = seen.rv ELSE ~held.exists

\* Converge child k: Create when the lister has none, Update when its spec
\* differs from the desired one, nothing otherwise.
convergeChild(w, k) ==
  /\ RW(w).pc = k
  /\ LET r == RW(w)
         desired == DesiredSpec(FromContext(r), k, r.t)
         seen == kidsC[k]
     IN IF seen.exists /\ DeepEqual(seen.spec, desired)
        THEN /\ SetRW(w, AfterChild(k, [r EXCEPT !.call = "none"], seen))
             /\ UNCHANGED << kids, failures >>
        ELSE \E ok \in BOOLEAN :
               /\ ~ok => failures > 0
               /\ failures' = IF ok THEN failures ELSE failures - 1
               /\ LET stored == IF seen.exists
                                THEN [seen EXCEPT !.spec = desired, !.rv = kids[k].rv + 1]
                                ELSE [NoKid EXCEPT !.exists = TRUE, !.spec = desired,
                                                   !.rv = kids[k].rv + 1]
                  IN IF ok /\ Accepted(seen, kids[k])
                     THEN /\ kids' = [kids EXCEPT ![k] = stored]
                          /\ SetRW(w, AfterChild(k, [r EXCEPT !.nw = @ + 1,
                                                     !.call = Write(seen.exists)], stored))
                     ELSE /\ kids' = kids
                          /\ SetRW(w, [r EXCEPT !.pc = "status", !.nw = @ + 1,
                                                !.call = Write(seen.exists), !.err = TRUE])
  /\ UNCHANGED << ciVars, certVars, audit, kind, pure, route, routeC, kidsC, cfgReady,
                  cfgReadyC, routeQueue, routeTracker, stable >>

reconcileCert(w) == convergeChild(w, "certificate")

reconcileClusterIngress(w) == convergeChild(w, "clusterIngress")

reconcilePlaceholderService(w) == convergeChild(w, "service")

RouteFinished(r, sw) ==
  [r EXCEPT !.pc = "done", !.sw = sw,
            !.ret = IF ReconcileError(r, sw) THEN "error" ELSE "nil"]

\* The tail of Reconcile of the Route, with its updateStatus.
RouteUpdateStatus(w) ==
  /\ RW(w).pc = "status"
  /\ LET r == RW(w)
         cur == routeC
     IN /\ stable' = [stable EXCEPT !["route"] = audit /\ ~r.err /\ r.clean]
        /\ IF DeepEqual(r.orig, r.route.status)
           THEN /\ SetRW(w, RouteFinished(r, "skipped"))
                /\ UNCHANGED << route, failures >>
           ELSE IF ~cur.exists
           THEN /\ SetRW(w, RouteFinished(r, "failed"))
                /\ UNCHANGED << route, failures >>
           ELSE IF DeepEqual(cur.status, r.route.status)
           THEN /\ SetRW(w, RouteFinished(r, "same"))
                /\ UNCHANGED << route, failures >>
           ELSE \E ok \in BOOLEAN :
                  /\ ~ok => failures > 0
                  /\ failures' = IF ok THEN failures ELSE failures - 1
                  /\ IF ok /\ route.exists /\ route.rv = cur.rv
                     THEN /\ route' = [route EXCEPT !.status = r.route.status, !.rv = @ + 1]
                          /\ SetRW(w, RouteFinished([r EXCEPT !.su = @ + 1], "written"))
                     ELSE /\ route' = route
                          /\ SetRW(w, RouteFinished([r EXCEPT !.su = @ + 1], "failed"))
  /\ UNCHANGED << ciVars, certVars, audit, kind, pure, routeC, kids, kidsC, cfgReady, cfgReadyC,
                  routeQueue, routeTracker >>

\* Reconcile returns to the work queue, which adds the key again (rate
\* limited) when the call returned an error.
RouteReturn(w) ==
  /\ RW(w).pc = "done"
  /\ routeQueue' = (routeQueue \/ RW(w).ret = "error")
  /\ SetRW(w, IdleRw)
  /\ UNCHANGED << ciVars, certVars, audit, kind, pure, route, routeC, kids, kidsC, cfgReady,
                  cfgReadyC, routeTracker, stable, failures >>

\* An external change ends what `stable` and a running Route reconcile assume.
DisturbRoute ==
  /\ stable' = [stable EXCEPT !["route"] = FALSE]
  /\ rw' = [rw EXCEPT !.clean = FALSE, !.idem = FALSE]
  /\ rw2' = [rw2 EXCEPT !.clean = FALSE, !.idem = FALSE]

\* The Configuration of the Route gets a ready revision.
ConfigurationReady ==
  /\ kind = "Route" /\ ~cfgReady
  /\ cfgReady' = TRUE
  /\ DisturbRoute
  /\ UNCHANGED << ciVars, certVars, audit, kind, pure, route, routeC, kids, kidsC, cfgReadyC,
                  routeQueue, routeTracker, failures >>

\* The ClusterIngress controller marks the Route's ClusterIngress ready.
ClusterIngressReady ==
  /\ kids["clusterIngress"].exists /\ ~kids["clusterIngress"].ready
  /\ kids' = [kids EXCEPT !["clusterIngress"].ready = TRUE, !["clusterIngress"].rv = @ + 1]
  /\ DisturbRoute
  /\ UNCHANGED << ciVars, certVars, audit, kind, pure, route, routeC, kidsC, cfgReady,
                  cfgReadyC, routeQueue, routeTracker, failures >>

\* The Route informer delivers an event: its handlers enqueue the key.
SyncRoute ==
  /\ routeC # route
  /\ routeC' = route
  /\ routeQueue' = TRUE
  /\ UNCHANGED << ciVars, certVars, audit, kind, pure, route, kids, kidsC, cfgReady, cfgReadyC,
                  rw, rw2, routeTracker, stable, failures >>

\* The informers of the children deliver their events: those of the
\* ClusterIngress and of the Service enqueue the Route, the Certificate
\* informer has no handler.
SyncChildren ==
  /\ kidsC # kids
  /\ kidsC' = kids
  /\ routeQueue' = (routeQueue \/ \E k \in {"clusterIngress", "service"} : kidsC[k] # kids[k])
  /\ UNCHANGED << ciVars, certVars, audit, kind, pure, route, routeC, kids, cfgReady, cfgReadyC,
                  rw, rw2, routeTracker, stable, failures >>

\* An OnChanged that enqueues the owner whether a registration is alive or not.
OnChangedAlways(ref) == TRUE

\* tracker.OnChanged: the owner is enqueued when a registration of the
\* changed object is alive.
OnChanged(ref) == ref \in routeTracker

\* The Configuration and Revision informers deliver their events to the tracker.
SyncConfiguration ==
  /\ cfgReadyC # cfgReady
  /\ cfgReadyC' = cfgReady
  /\ routeQueue' = (routeQueue \/ OnChanged("Configuration"))
  /\ UNCHANGED << ciVars, certVars, audit, kind, pure, route, routeC, kids, kidsC, cfgReady,
                  rw, rw2, routeTracker, stable, failures >>

\* The lease of the tracker's registrations runs out.
LeaseExpires ==
  /\ routeTracker # {}
  /\ routeTracker' = {}
  /\ UNCHANGED << ciVars, certVars, audit, kind, pure, route, routeC, kids, kidsC, cfgReady,
                  cfgReadyC, rw, rw2, routeQueue, stable, failures >>

\* The steps of a Route worker after the key is taken.
RouteSteps(w) ==
  \/ BuildTrafficConfiguration(w)
  \/ configureTraffic(w)
  \/ reconcileTargetRevisions(w)
  \/ reconcileCert(w)
  \/ reconcileClusterIngress(w)
  \/ reconcilePlaceholderService(w)
  \/ RouteUpdateStatus(w)
  \/ RouteReturn(w)

RouteWorker(w) ==
  \/ RouteReconcile(w)
  \/ RouteSteps(w)

\* ------------------------------------------------------------- config store
\* The config maps that the store of a reconciler watches: the ClusterIngress
\* reconciler's the Istio one, the Route reconciler's the domain one.
WatchedMaps ==
  CASE kind = "ClusterIngress" -> { cm \in ConfigMaps : cm.name = IstioConfigName }
    [] kind = "Route" -> { cm \in ConfigMaps : cm.name = DomainConfigName }
    [] OTHER -> ConfigMaps

notConfigVars == << build, enableReconcilingGateway, ingress, ingressC, gateway, gatewayC,
                    secrets, secretsC, vsvc, vsvcC, track, mutex, wk, stable, failures,
                    specChanges, ghosts, audit, kind, pure, certVars, routeVars >>

notBuilderVars == << build, enableReconcilingGateway, ingress, ingressC, gateway, gatewayC,
                     secrets, secretsC, vsvc, vsvcC, track, mutex, wk, stable, failures,
                     specChanges, ghosts, audit, kind, certVars, routeVars, configVars >>

\* The watcher delivers a config map: the store runs the constructor of that
\* name and swaps the fragment in unless the parse failed. What a reconcile in
\* flight or a finished one has established no longer stands. A domain config
\* that was stored resyncs the Routes: every key is enqueued.
OnConfigChanged ==
  /\ kind = "Config" \/ specChanges > 0
  /\ specChanges' = IF kind = "Config" THEN specChanges ELSE specChanges - 1
  /\ \E cm \in WatchedMaps :
       LET parsed == Constructor(cm) IN
       /\ lastChange' = [name |-> cm.name, data |-> cm.data,
                         config |-> parsed.config, err |-> parsed.err]
       /\ configStore' = StoreIfParsed(configStore, cm, parsed)
       /\ routeQueue' = (routeQueue \/ (kind = "Route" /\ ~parsed.err))
  /\ stable' = [k \in Keys |-> FALSE]
  /\ wk' = [o \in Owners |-> [wk[o] EXCEPT !.clean = FALSE, !.idem = FALSE]]
  /\ rw' = [rw EXCEPT !.clean = FALSE, !.idem = FALSE]
  /\ rw2' = [rw2 EXCEPT !.clean = FALSE, !.idem = FALSE]
  /\ UNCHANGED << build, enableReconcilingGateway, ingress, ingressC, gateway, gatewayC,
                  secrets, secretsC, vsvc, vsvcC, track, mutex, failures, ghosts, audit,
                  kind, pure, certVars, route, routeC, kids, kidsC, cfgReady, cfgReadyC,
                  routeTracker, loaded >>

\* A caller takes the Config from the store.
StoreLoad ==
  /\ kind = "Config"
  /\ loaded' = Load(configStore)
  /\ UNCHANGED << notConfigVars, configStore, lastChange >>

\* The caller writes into the Config it holds; memory that the Config shares
\* with the store's snapshot changes with it.
MutateLoaded ==
  /\ kind = "Config"
  /\ loaded.held /\ ~loaded.mutated
  /\ loaded' = [loaded EXCEPT !.mutated = TRUE, !.value = MutatedConfig(@)]
  /\ configStore' = IF loaded.alias THEN MutatedConfig(configStore) ELSE configStore
  /\ UNCHANGED << notConfigVars, lastChange >>

\* The steps of the later revision after the key is taken.
WorkerSteps(o) ==
  \/ reconcileVirtualService(o)
  \/ ensureFinalizer(o)
  \/ reconcileGateway(o)
  \/ reconcileGatewayUpdate(o)
  \/ reconcileCertSecret(o)
  \/ deleteUnusedSecrets(o)
  \/ reconcileDeletion(o)
  \/ updateStatus(o)
  \/ Return(o)

\* The steps of the later revision.
WorkerLater(o) ==
  \/ Reconcile(o)
  \/ WorkerSteps(o)

\* The worker of the later revision fed by the informers alone, whose keys
\* are the namespace and name of an object.
WorkerOfInformer(o) ==
  \/ ReconcileKey(o, << o >>)
  \/ WorkerSteps(o)

Worker(o) ==
  \/ WorkerLater(o)
  \/ reconcileCertSecretsB1(o)
  \/ cleanUpUnsedSecret(o)
  \/ reconcileCertSecretB1(o)

Informer(o) ==
  \/ SyncIngress(o)
  \/ \E g \in GatewayNames : SyncGateway(g)
  \/ SyncSecrets
  \/ SyncVirtualService(o)

Next ==
  \/ Worker("A")
  \/ Informer("A")
  \/ UserDelete("A")
  \/ SpecChange("A")
  \/ RenewOrigin("A")
  \/ ReleaseOtherFinalizer("A")
  \/ CertificateWorker
  \/ CertManagerIssues
  \/ CertManagerLosesReady
  \/ SyncKnCert
  \/ SyncCmCert
  \/ RouteWorker(1)
  \/ ConfigurationReady
  \/ ClusterIngressReady
  \/ SyncRoute
  \/ SyncChildren
  \/ SyncConfiguration
  \/ LeaseExpires
  \/ OnConfigChanged

Spec == Init /\ [][Next]_vars

\* The config store on its own: config maps arrive, a caller loads the Config
\* and writes into what it got.
InitConfig ==
  /\ kind = "Config"
  /\ build = 2
  /\ enableReconcilingGateway = FALSE
  /\ audit = FALSE
  /\ InitWith(NoIngress, VsOfA("absent"), 0, 0)
  /\ NoCertificates
  /\ NoRoutes

NextConfig ==
  \/ OnConfigChanged
  \/ StoreLoad
  \/ MutateLoaded

SpecConfig == InitConfig /\ [][NextConfig]_vars

NextShared ==
  \/ \E o \in Owners : Worker(o)
  \/ SyncAll
  \/ UserDelete("A")

SpecShared == InitShared /\ [][NextShared]_vars

\* One ClusterIngress, A, under the later revision, whose worker keeps running
\* and whose listers keep catching up; the store refuses a bounded number of calls.
InitLive ==
  /\ kind = "ClusterIngress"
  /\ build = 2
  /\ enableReconcilingGateway \in BOOLEAN
  /\ audit = FALSE
  /\ \E f \in {<< >>, << OtherFinalizer >>} :
       InitWith(OnlyA(f), VsOfA("absent"), MaxFailures, 0)
  /\ NoCertificates
  /\ NoRoutes

NextLive ==
  \/ WorkerOfInformer("A")
  \/ Informer("A")
  \/ UserDelete("A")
  \/ ReleaseOtherFinalizer("A")

Fairness ==
  /\ WF_vars(WorkerOfInformer("A"))
  /\ WF_vars(SyncIngress("A"))
  /\ \A g \in GatewayNames : WF_vars(SyncGateway(g))
  /\ WF_vars(SyncSecrets)
  /\ WF_vars(SyncVirtualService("A"))

SpecLive == InitLive /\ [][NextLive]_vars /\ Fairness

\* The Route controller as the work queue drives it: one worker that takes
\* the key when the queue holds it.
InitRouteLive ==
  /\ audit = FALSE
  /\ InitRouteWith(MaxFailures, 0)

RouteDequeue(w) ==
  /\ routeQueue
  /\ RouteReconcileKey(w, RouteKey)

NextRouteLive ==
  \/ RouteDequeue(1)
  \/ RouteSteps(1)
  \/ ConfigurationReady
  \/ ClusterIngressReady
  \/ SyncRoute
  \/ SyncChildren
  \/ SyncConfiguration
  \/ LeaseExpires

\* The worker and the informers keep running; nothing obliges a Configuration
\* to get ready or a lease to run out.
RouteFairness ==
  /\ WF_vars(RouteDequeue(1))
  /\ WF_vars(RouteSteps(1))
  /\ WF_vars(SyncRoute)
  /\ WF_vars(SyncChildren)
  /\ WF_vars(SyncConfiguration)

SpecRouteLive == InitRouteLive /\ [][NextRouteLive]_vars /\ RouteFairness

\* Two workers of the Route controller at the same key: each may start a
\* Reconcile at any time, the Configuration and the config store stand still,
\* and a store call fails only when the store turns the write down.
InitRouteShared ==
  /\ audit = FALSE
  /\ InitRouteWith(0, 0)

NextRouteShared ==
  \/ RouteWorker(1)
  \/ RouteWorker(2)
  \/ SyncRoute
  \/ SyncChildren

SpecRouteShared == InitRouteShared /\ [][NextRouteShared]_vars

\* ------------------------------------------------- desired-state builders
MaxNames == 3   \* DNS names handed to MakeCertificates in one call

\* The DNS names of the builder calls of the model.
NamePool ==
  { << "a", "x", "example", "com" >>, << "b", "x", "example", "com" >>,
    << "y", "example", "com" >>, << "x", "example", "com" >>, << "com" >> }

\* The lists of at most n names of the pool.
NameLists(n) == UNION { [1 .. k -> NamePool] : k \in 0 .. n }

\* The Routes handed to the builders: with a status domain or without one.
BuilderRoutes ==
  { [name |-> "r", namespace |-> "ns", domain |-> d] :
      d \in { << >>, << "r", "ns", "example", "com" >> } }

\* A caller hands a Route and a list of DNS names to MakeCertificates.
CallMakeCertificates ==
  /\ kind = "Builders"
  /\ \E r \in BuilderRoutes, dnsNames \in NameLists(MaxNames), enableWildcardCert \in BOOLEAN :
       pure' = [fn |-> "MakeCertificates", route |-> r, dnsNames |-> dnsNames,
                enableWildcardCert |-> enableWildcardCert,
                out |-> MakeCertificates(r, dnsNames, enableWildcardCert)]
  /\ UNCHANGED notBuilderVars

\* Names of traffic targets ("" is the default target).
TargetNames == {"", "a", "v1"}

\* The orders in which a range over a map with the keys S may yield them.
Orders(S) ==
  { f \in [1 .. Cardinality(S) -> S] : \A i, j \in DOMAIN f : f[i] = f[j] => i = j }

\* The Certificates of a Route with the wildcard mode off: GetDNSNames, then
\* MakeCertificates.
CallGetDNSNames ==
  /\ kind = "Builders"
  /\ \E r \in BuilderRoutes, targets \in SUBSET TargetNames :
       \E targetNames \in Orders(targets) :
         pure' = [fn |-> "GetDNSNames", route |-> r, targets |-> targets,
                  targetNames |-> targetNames,
                  dnsNames |-> GetDNSNames(r, targetNames),
                  out |-> MakeCertificates(r, GetDNSNames(r, targetNames), FALSE)]
  /\ UNCHANGED notBuilderVars

\* The Route reconciler builds its Certificate with makeCertificate.
CallMakeCertificate ==
  /\ kind = "Builders"
  /\ \E suffix \in DomainSuffixes, targets \in SUBSET TargetNames :
       pure' = [fn |-> "makeCertificate", domain |-> suffix, targets |-> targets,
                out |-> makeCertificate([DefaultConfig EXCEPT !.Domain = suffix], targets)]
  /\ UNCHANGED notBuilderVars

\* "*." followed by all labels of the host but the first.
convertToWildcardHost(host) == << "*" >> \o Tail(host)

\* The labels of the host but the first, joined by "-".
buildCertName(host) == Tail(host)

\* GcpCertificateBuilder.Build: name, namespace and spec; the object metadata
\* holds no owner reference.
Build(r, hosts, certName) ==
  [name |-> certName, namespace |-> r.namespace, secretName |-> certName,
   commonName |-> hosts[1], dns |-> hosts, owners |-> {}]

\* The namespace-level certificate and, for a Route with a named traffic
\* target, the route-level certificate.
buildDesiredCerts(r, routeHost, hasTargetName) ==
  << Build(r, << convertToWildcardHost(routeHost) >>,
           buildCertName(convertToWildcardHost(routeHost))) >> \o
  (IF hasTargetName
     THEN << Build(r, << << "*" >> \o routeHost >>, buildCertName(<< "*" >> \o routeHost)) >>
     ELSE << >>)

\* The TLS provisioning reconciler builds the cert-manager Certificates of a
\* Route; reconcileCertificates creates each of them as built.
CallBuildDesiredCerts ==
  /\ kind = "Builders"
  /\ \E r \in BuilderRoutes, suffix \in DomainSuffixes, hasTargetName \in BOOLEAN :
       pure' = [fn |-> "buildDesiredCerts", route |-> r, domain |-> suffix,
                hasTargetName |-> hasTargetName,
                out |-> buildDesiredCerts(r, routeDomain([DefaultConfig EXCEPT !.Domain = suffix]),
                                          hasTargetName)]
  /\ UNCHANGED notBuilderVars

\* At most this many ingress gateways in the Istio part of a config.
MaxGateways == 2

\* The ingress gateways of a config handed to MakeDesiredSecrets.
GatewayPool ==
  { [GatewayName |-> "knative-ingress-gateway", ServiceURL |-> DefaultServiceURL],
    [GatewayName |-> "cluster-local-gateway", ServiceURL |-> LocalServiceURL],
    [GatewayName |-> "custom-gateway", ServiceURL |-> OtherServiceURL] }

GatewayLists ==
  { gws \in UNION { [1 .. k -> GatewayPool] : k \in 1 .. MaxGateways } :
      \A i, j \in DOMAIN gws : gws[i] = gws[j] => i = j }

\* Spec.TLS of the ClusterIngress handed to MakeDesiredSecrets.
TLSLists == { << >>, << "cert-a" >>, << "cert-a", "cert-b" >> }

\* The reconciler builds the desired secrets of a ClusterIngress from the
\* config of the call and the secret lister.
CallMakeDesiredSecrets ==
  /\ kind = "Builders"
  /\ \E gws \in GatewayLists, tls \in TLSLists :
       LET ci == [NewIngress("A", << >>) EXCEPT !.tls = tls] IN
       pure' = [fn |-> "MakeDesiredSecrets", gateways |-> gws, ci |-> ci,
                out |-> MakeDesiredSecrets([DefaultConfig EXCEPT !.Istio = gws], ci, secretsC)]
  /\ UNCHANGED notBuilderVars

InitBuilders ==
  /\ kind = "Builders"
  /\ build = 2
  /\ enableReconcilingGateway = FALSE
  /\ audit = FALSE
  /\ InitWith(NoIngress, VsOfA("absent"), 0, 0)
  /\ NoCertificates
  /\ NoRoutes

NextBuilders ==
  \/ CallMakeCertificates
  \/ CallGetDNSNames
  \/ CallMakeCertificate
  \/ CallBuildDesiredCerts
  \/ CallMakeDesiredSecrets

SpecBuilders == InitBuilders /\ [][NextBuilders]_vars

\* ------------------------------------------- owners of a shared certificate
MaxOwners == 3   \* route keys in the owner annotation before a call adds one

\* The Routes that share a Certificate.
OwnerRoutes ==
  { [name |-> n, namespace |-> ns, domain |-> << "example", "com" >>] :
      n \in {"r", "b"}, ns \in {"ns"} } \cup
  { [name |-> "r", namespace |-> "a", domain |-> << "example", "com" >>] }

\* A Certificate comes out of makeCert for one of the Routes.
CallMakeCert ==
  /\ kind = "Owners"
  /\ \E r \in OwnerRoutes :
       LET cert == makeCert(r, << << "*", "example", "com" >> >>, << "example", "com" >>) IN
       pure' = [fn |-> "makeCert", route |-> r, before |-> cert, cert |-> cert,
                err |-> FALSE]
  /\ UNCHANGED notBuilderVars

\* A Certificate comes from elsewhere, its annotation missing or not a list.
CallWithAnnotation ==
  /\ kind = "Owners"
  /\ pure.fn = "makeCert"
  /\ \E a \in {NullAnnotation, ObjectAnnotation, NotJSONAnnotation, MissingAnnotation} :
       LET cert == [pure.cert EXCEPT !.annotation = a] IN
       pure' = [fn |-> "get", route |-> pure.route, before |-> cert, cert |-> cert,
                err |-> FALSE]
  /\ UNCHANGED notBuilderVars

CallAddToCertOwner ==
  /\ kind = "Owners"
  /\ pure.fn # "none"
  /\ Len(pure.cert.annotation.keys) < MaxOwners
  /\ \E r \in OwnerRoutes :
       LET out == AddToCertOwner(pure.cert, r) IN
       pure' = [fn |-> "AddToCertOwner", route |-> r, before |-> pure.cert,
                cert |-> out.cert, err |-> out.err]
  /\ UNCHANGED notBuilderVars

CallRemoveCertOwner ==
  /\ kind = "Owners"
  /\ pure.fn # "none"
  /\ \E r \in OwnerRoutes :
       LET out == RemoveCertOwner(pure.cert, r) IN
       pure' = [fn |-> "RemoveCertOwner", route |-> r, before |-> pure.cert,
                cert |-> out.cert, err |-> out.err]
  /\ UNCHANGED notBuilderVars

InitOwners ==
  /\ kind = "Owners"
  /\ build = 2
  /\ enableReconcilingGateway = FALSE
  /\ audit = FALSE
  /\ InitWith(NoIngress, VsOfA("absent"), 0, 0)
  /\ NoCertificates
  /\ NoRoutes

NextOwners ==
  \/ CallMakeCert
  \/ CallWithAnnotation
  \/ CallAddToCertOwner
  \/ CallRemoveCertOwner

SpecOwners == InitOwners /\ [][NextOwners]_vars

\* ------------------------------------------- a second writer of the status
\* Another client of the API server (a second replica of the controller, an
\* operator) stores a status of ClusterIngress o with UpdateStatus.
OtherStatusWriter(o) ==
  /\ specChanges > 0
  /\ ingress[o].exists /\ ~ingress[o].deleting
  /\ ingress[o].status.cond # "other"
  /\ ingress' = [ingress EXCEPT ![o].status.cond = "other", ![o].rv = @ + 1]
  /\ specChanges' = specChanges - 1
  /\ Disturb(o)
  /\ UNCHANGED << cfg, gateway, secrets, vsvc, caches, track, mutex, failures,
                  ghosts >>

\* One ClusterIngress, A, under the later revision with the gateway
\* reconciliation on, and a second writer of its status; no store failures.
InitStatus ==
  /\ kind = "ClusterIngress"
  /\ build = 2
  /\ enableReconcilingGateway = TRUE
  /\ audit = FALSE
  /\ InitWith(OnlyA(<< >>), VsOfA("absent"), 0, MaxSpecChanges)
  /\ NoCertificates
  /\ NoRoutes

NextStatus ==
  \/ WorkerOfInformer("A")
  \/ Informer("A")
  \/ UserDelete("A")
  \/ OtherStatusWriter("A")

SpecStatus == InitStatus /\ [][NextStatus]_vars

\* ------------------------------------------------------- Cloud DNS provider
\* A hostname is its labels and whether it ends with a dot; the empty string
\* has no labels and no dot.
Hostname(labels, dot) == [labels |-> labels, dot |-> dot]
EmptyString == Hostname(<< >>, FALSE)

RECURSIVE LabelsLen(_)
LabelsLen(labels) ==
  IF labels = << >> THEN 0
  ELSE Len(Head(labels)) + (IF Len(labels) > 1 THEN 1 ELSE 0) + LabelsLen(Tail(labels))

\* len(hostname): the labels, the dots between them and the trailing dot.
StrLen(hostname) == LabelsLen(hostname.labels) + (IF hostname.dot THEN 1 ELSE 0)

\* strings.TrimSuffix(hostname, ".") + "."
ensureTrailingDot(hostname) == [hostname EXCEPT !.dot = TRUE]

\* hostname == zoneName || strings.HasSuffix(hostname, "."+zoneName)
InZone(hostname, zoneName) ==
  \/ hostname = zoneName
  \/ /\ zoneName.labels # << >>
     /\ hostname.dot = zoneName.dot
     /\ Len(hostname.labels) > Len(zoneName.labels)
     /\ SubSeq(hostname.labels, Len(hostname.labels) - Len(zoneName.labels) + 1,
               Len(hostname.labels)) = zoneName.labels

\* A comparison under which no zone name is longer than the one found first.
NeverLonger(zoneName, suitableZoneName) == FALSE

\* len(zoneName) > len(suitableZoneName)
Longer(zoneName, suitableZoneName) == StrLen(zoneName) > StrLen(suitableZoneName)

RECURSIVE FindZoneFrom(_, _, _, _)
\* The loop of FindZone over the map z in the order that the range yields.
FindZoneFrom(z, order, hostname, suitable) ==
  IF order = << >> THEN suitable
  ELSE LET zoneID == Head(order)
           zoneName == z[zoneID]
       IN FindZoneFrom(z, Tail(order), hostname,
            IF InZone(hostname, zoneName)
               /\ (suitable.name = EmptyString \/ Longer(zoneName, suitable.name))
            THEN [id |-> zoneID, name |-> zoneName]
            ELSE suitable)

FindZone(z, order, hostname) ==
  FindZoneFrom(z, order, hostname, [id |-> "", name |-> EmptyString])

RECURSIVE appendRecords(_, _, _, _, _)
\* One loop of separateChange: each record goes to the change of the zone
\* that FindZone returns for its name, or nowhere; orders[i] is the order in
\* which the map is ranged over for record i.
appendRecords(changes, z, records, orders, field) ==
  IF records = << >> THEN changes
  ELSE LET zoneName == FindZone(z, Head(orders), ensureTrailingDot(Head(records))).id IN
       appendRecords(
         IF zoneName # ""
         THEN [changes EXCEPT ![zoneName][field] = Append(@, Head(records))]
         ELSE changes,
         z, Tail(records), Tail(orders), field)

\* separateChange: an empty change per zone, the additions, the deletions,
\* then the zones whose change is empty are taken out.
separateChange(zones, change, addOrders, delOrders) ==
  LET zoneNameIDMapper == [id \in DOMAIN zones |-> zones[id]]
      empty == [id \in DOMAIN zones |-> [Additions |-> << >>, Deletions |-> << >>]]
      added == appendRecords(empty, zoneNameIDMapper, change.Additions, addOrders, "Additions")
      changes == appendRecords(added, zoneNameIDMapper, change.Deletions, delOrders, "Deletions")
  IN [id \in { i \in DOMAIN changes :
                 changes[i].Additions # << >> \/ changes[i].Deletions # << >> }
        |-> changes[id]]

\* At most this many additions and this many deletions in a change.
MaxRecords == 1

\* The managed zones of the project: two of them have the same DNS name.
ZonePool ==
  [z \in {"zone-com", "zone-sub", "zone-dup"} |->
     IF z = "zone-sub" THEN Hostname(<< "sub", "example", "com" >>, TRUE)
     ELSE Hostname(<< "example", "com" >>, TRUE)]

\* The names of the records of a change, with a trailing dot or without.
RecordNames ==
  { Hostname(<< "example", "com" >>, TRUE),
    Hostname(<< "a", "example", "com" >>, FALSE),
    Hostname(<< "b", "sub", "example", "com" >>, TRUE),
    Hostname(<< "xsub", "example", "com" >>, FALSE),
    Hostname(<< "a", "example", "net" >>, TRUE) }

RecordLists == UNION { [1 .. k -> RecordNames] : k \in 0 .. MaxRecords }

\* The provider splits a change over the managed zones it has listed.
CallSeparateChange ==
  /\ kind = "Zones"
  /\ \E ids \in SUBSET DOMAIN ZonePool, additions \in RecordLists, deletions \in RecordLists :
       \E addOrders \in [DOMAIN additions -> Orders(ids)],
          delOrders \in [DOMAIN deletions -> Orders(ids)] :
         LET zones == [id \in ids |-> ZonePool[id]]
             change == [Additions |-> additions, Deletions |-> deletions]
         IN pure' = [fn |-> "separateChange", zones |-> zones, change |-> change,
                     out |-> separateChange(zones, change, addOrders, delOrders)]
  /\ UNCHANGED notBuilderVars

InitZones ==
  /\ kind = "Zones"
  /\ build = 2
  /\ enableReconcilingGateway = FALSE
  /\ audit = FALSE
  /\ InitWith(NoIngress, VsOfA("absent"), 0, 0)
  /\ NoCertificates
  /\ NoRoutes

NextZones ==
  \/ CallSeparateChange

SpecZones == InitZones /\ [][NextZones]_vars

\* ------------------------------------------------------------------ claims
Tagged(o) == [name |-> o]
ServersOf(gws, o) == UNION { GetServers(gws[g], Tagged(o)) : g \in GatewayNames }

\* C1: a gateway update that reconcileGateway makes for one ClusterIngress
\* (normal reconcile or deletion) leaves the servers that the stored gateway
\* holds for every other ClusterIngress as they were.
C1_GatewayTagIsolation ==
  [][\A a \in Owners, b \in Owners, g \in GatewayNames :
       (a # b /\ wk[a].pc = "gwupd" /\ wk'[a].pc # "gwupd" /\ gateway'[g] # gateway[g])
         => GetServers(gateway'[g], Tagged(b)) = GetServers(gateway[g], Tagged(b))]_vars

\* C1 witness: the deletion of A has taken A's servers out of a gateway that
\* holds servers of B.
C1_Witness ==
  /\ wk["A"].ci.deleting /\ wk["A"].pc \in {"del", "rmfin"} /\ wk["A"].nw = 1
  /\ ServersOf(gateway, "A") = {}
  /\ ServersOf(gateway, "B") # {}

\* C2 (as stated): at most one worker is between its read of the gateway and
\* its gateway Update.
C2_SingleWorkerInGatewayCycle ==
  \A a \in Owners, b \in Owners :
    a # b => ~(wk[a].pc = "gwupd" /\ wk[b].pc = "gwupd")

FinalizerRemoved(o) ==
  /\ wk[o].pc = "rmfin"
  /\ clusterIngressFinalizer \in Range(ingress[o].fin)
  /\ clusterIngressFinalizer \notin Range(ingress'[o].fin)

\* C4 (as stated): when the finalizer has just been removed, no gateway holds
\* a server of the owner, no replica secret of the owner exists and the
\* tracker holds no registration of the owner.
C4_CleanWhenFinalizerRemoved ==
  [][\A o \in Owners :
       FinalizerRemoved(o)
         => /\ ServersOf(gateway', o) = {}
            /\ MakeSecretSelector(secrets', Tagged(o)) = {}
            /\ ~\E t \in track' : t[2] = o]_vars

\* A Reconcile call of o on a deleting ClusterIngress.
Deleting(o) == wk[o].key = o /\ wk[o].ci.deleting

\* C5: an error of a cleanup step of the deletion path ends the body before
\* the finalizer is removed and Reconcile returns an error; a later call that
\* starts from listers in sync writes only what is still to be done (a gateway
\* that still holds the owner's servers, a replica that still exists) and ends
\* in the state of an uninterrupted deletion: the object gone, no server of
\* the owner in a gateway, no replica of the owner in a namespace of the
\* gateway services of the call's config.
C5_CleanupAbortsAndResumes ==
  /\ [][\A o \in Owners :
          (Deleting(o) /\ wk'[o].key = o /\ (wk[o].err \/ wk'[o].err))
            => /\ wk'[o].pc \in {"status", "done"}
               /\ wk'[o].pc = "done" => wk'[o].ret = "error"
               /\ clusterIngressFinalizer \in Range(ingress[o].fin)
                    => clusterIngressFinalizer \in Range(ingress'[o].fin)]_vars
  /\ [](\A o \in Owners :
          (Deleting(o) /\ wk[o].clean)
            => /\ wk[o].pc = "gwupd" => GetServers(gateway[Head(wk[o].gws)], Tagged(o)) # {}
               /\ wk[o].pc = "del" => wk[o].dl \subseteq secrets
               /\ (wk[o].pc = "done" /\ ~wk[o].err /\ wk[o].nw > 0)
                    => /\ ~ingress[o].exists
                       /\ ServersOf(gateway, o) = {}
                       /\ (build = 2 /\ enableReconcilingGateway)
                            => \A s \in MakeSecretSelector(secrets, Tagged(o)) :
                                 s.ns \notin Range(GetGatewaySvcNamespaces(wk[o].config)))

\* C5 witness: after a cleanup step of A's deletion had failed, a later call
\* has finished the deletion.
C5_Witness ==
  /\ "A" \in aborted
  /\ Deleting("A") /\ wk["A"].clean /\ wk["A"].pc = "done"
  /\ ~wk["A"].err /\ wk["A"].nw > 0

\* The Reconcile step of o that loads a deleting ClusterIngress.
LoadsDeleting(o) == wk[o].pc = "idle" /\ wk'[o].key = o /\ wk'[o].ci.deleting

\* The deletion path returns nil at once: no store write, nothing left to do.
ReturnsAtOnce(r) ==
  r.pc = "status" /\ r.plan = << >> /\ ~r.err /\ r.nw = 0 /\ r.orig = r.ci.status

\* C6 (as stated): the deletion path returns nil without a store write when
\* the finalizer token is absent, and cleans up the gateway servers when the
\* token is present at any position of the finalizer list.
C6_TokenAnywhere ==
  [][\A o \in Owners :
       LoadsDeleting(o)
         => IF clusterIngressFinalizer \in Range(wk'[o].ci.fin)
            THEN wk'[o].pc = "gw"
            ELSE ReturnsAtOnce(wk'[o])]_vars

\* C6 (amended): the deletion path returns nil without a store write unless
\* the finalizer token is the first element of the finalizer list, and in that
\* case it cleans up the gateway servers.
C6_TokenFirst ==
  [][\A o \in Owners :
       LoadsDeleting(o)
         => IF wk'[o].ci.fin # << >> /\ Head(wk'[o].ci.fin) = clusterIngressFinalizer
            THEN wk'[o].pc = "gw"
            ELSE ReturnsAtOnce(wk'[o])]_vars

\* C6 witness: a deleting ClusterIngress whose finalizer list holds the token
\* behind another finalizer has been reconciled without any write.
C6_Witness ==
  /\ Deleting("A") /\ wk["A"].pc = "done"
  /\ wk["A"].ci.fin = << OtherFinalizer, clusterIngressFinalizer >>
  /\ wk["A"].nw = 0 /\ wk["A"].ret = "nil"

\* The stored ClusterIngress o is being deleted and carries the finalizer.
Cleaning(o) ==
  /\ ingress[o].exists /\ ingress[o].deleting
  /\ clusterIngressFinalizer \in Range(ingress[o].fin)

Removed(o) == clusterIngressFinalizer \notin Range(ingress[o].fin)

\* C7 (as stated): with a worker that keeps running and store calls that
\* eventually succeed, every ClusterIngress that carries the finalizer and a
\* deletion timestamp eventually has the finalizer removed.
C7_CleaningEnds == \A o \in {"A"} : Cleaning(o) ~> Removed(o)

\* C7 (amended): with a worker that keeps running and store calls that
\* eventually succeed, every ClusterIngress that has a deletion timestamp and
\* the finalizer as the first element of its finalizer list eventually has
\* the finalizer removed.
C7_CleaningEndsWhenFirst ==
  \A o \in {"A"} :
    (Cleaning(o) /\ Head(ingress[o].fin) = clusterIngressFinalizer) ~> Removed(o)

\* C7 witness: the deletion path has removed the finalizer of A, and the
\* store the object.
C7_Witness ==
  /\ Deleting("A") /\ wk["A"].pc = "done" /\ ~wk["A"].err /\ wk["A"].nw > 0
  /\ ~ingress["A"].exists


\* C8: a reconcile body of a Route, a ClusterIngress or a Certificate that
\* starts with the listers in sync with the store, right after a body of the
\* same object that succeeded, with no external change since, issues no
\* create, update, patch or delete call.
C8_SecondRunWritesNothing ==
  /\ \A o \in Owners : wk[o].idem => wk[o].nw = 0
  /\ cw.idem => cw.nw = 0
  /\ rw.idem => rw.nw = 0

\* C8 witness: a second body in succession of the later revision has run to
\* its end on a ClusterIngress that has gateway servers and replicas.
C8_Witness ==
  /\ build = 2 /\ wk["A"].pc = "done" /\ wk["A"].idem /\ ~wk["A"].ci.deleting
  /\ ServersOf(gateway, "A") # {} /\ MakeSecretSelector(secrets, Tagged("A")) # {}

\* C9: for each of the three reconcilers, a Reconcile whose body leaves the
\* status equal to the status of the object loaded from the lister issues no
\* status update call.
C9_StatusWriteSuppressed ==
  /\ \A o \in Owners :
       (wk[o].pc = "done" /\ wk[o].orig = wk[o].ci.status) => wk[o].su = 0
  /\ (cw.pc = "done" /\ cw.orig = cw.cert.status) => cw.su = 0
  /\ (rw.pc = "done" /\ rw.orig = rw.route.status) => rw.su = 0

\* C9 witness: a Reconcile of a ready ClusterIngress computed the status it
\* had loaded and has returned.
C9_Witness ==
  /\ wk["A"].pc = "done" /\ wk["A"].key = "A"
  /\ wk["A"].ci.status.cond = "ready" /\ wk["A"].orig = wk["A"].ci.status
  /\ wk["A"].su = 0

\* The status write of a finished call was skipped or succeeded.
WriteSkippedOrDone(sw) == sw \in {"none", "skipped", "same", "written"}

\* C10: Reconcile returns nil exactly when the body returned nil and the
\* status write was skipped or succeeded; a failed status write after a body
\* that succeeded returns the write error, and a body that failed returns an
\* error whatever the status write did.
C10_ReturnValue ==
  /\ \A o \in Owners :
       wk[o].pc = "done"
         => (wk[o].ret = "nil" <=> (~wk[o].err /\ WriteSkippedOrDone(wk[o].sw)))
  /\ cw.pc = "done" => (cw.ret = "nil" <=> (~cw.err /\ WriteSkippedOrDone(cw.sw)))
  /\ rw.pc = "done" => (rw.ret = "nil" <=> (~rw.err /\ WriteSkippedOrDone(rw.sw)))

\* C10 witness: the body succeeded, the status write failed and Reconcile
\* has returned an error.
C10_Witness ==
  /\ wk["A"].pc = "done" /\ ~wk["A"].err /\ wk["A"].sw = "failed"
  /\ wk["A"].su = 1 /\ wk["A"].ret = "error"

\* C11: for each of the three reconcilers, a Reconcile whose key does not
\* parse, or whose key names an object that the lister does not hold, returns
\* nil at once and issues no store call.
C11_BadKeyOrAbsentReturnsNil ==
  [][/\ \A o \in Owners :
          (wk[o].pc = "idle" /\ wk'[o].pc # "idle"
             /\ (wk'[o].key = InvalidKeyName \/ ~ingressC[o].exists))
            => /\ wk'[o].pc = "done" /\ wk'[o].ret = "nil"
               /\ wk'[o].nw = 0 /\ wk'[o].su = 0
               /\ UNCHANGED << ingress, gateway, secrets, vsvc, track >>
     /\ (cw.pc = "idle" /\ cw'.pc # "idle"
           /\ (cw'.key = InvalidKeyName \/ ~knCertC.exists))
          => /\ cw'.pc = "done" /\ cw'.ret = "nil" /\ cw'.nw = 0 /\ cw'.su = 0
             /\ UNCHANGED << knCert, cmCert >>
     /\ (rw.pc = "idle" /\ rw'.pc # "idle"
           /\ (rw'.key = InvalidKeyName \/ ~routeC.exists))
          => /\ rw'.pc = "done" /\ rw'.ret = "nil" /\ rw'.nw = 0 /\ rw'.su = 0
             /\ UNCHANGED << route, kids >>]_vars

\* C11 witness: Reconcile has returned nil for a key that does not parse
\* while the object exists, without a store call.
C11_Witness ==
  /\ knCert.exists /\ cw.pc = "done" /\ cw.key = InvalidKeyName
  /\ cw.ret = "nil" /\ cw.nw = 0 /\ cw.su = 0

\* The replica that the next reconcileCertSecret step of o converges: the head
\* of the desired replicas (later revision), the copy in istio-system of the
\* origin secret of the next TLS entry (earlier revision).
NextReplica(o) ==
  IF wk[o].pc = "sec" THEN Head(wk[o].secs)
  ELSE makeTargetSecret(CHOOSE s \in OriginGet(secretsC, Head(wk[o].secs)) : TRUE,
                        wk[o].ci, IstioSystem)

\* The worker of o has taken a reconcileCertSecret step that got as far as
\* the lookup of the replica.
SecretStepped(o) ==
  /\ wk[o].pc \in {"sec", "sec1c"} /\ wk[o].secs # << >>
  /\ wk[o].pc = "sec1c" => OriginGet(secretsC, Head(wk[o].secs)) # {}
  /\ wk'[o].pc # wk[o].pc \/ wk'[o].secs # wk[o].secs

\* C12: a converge step (VirtualService, cert-manager Certificate, the Route's
\* children, secret replica) issues one Create and no Update when its lister
\* has no object, no write when the listed spec/data equals the desired one,
\* and one Update when it differs; an Update that the store accepts leaves
\* the stored object with the desired spec/data and the other fields of the
\* existing object.
C12_ConvergeStep ==
  [][/\ (cw.pc = "cm" /\ cw'.pc # "cm") =>
          LET desired == makeCertManagerCertificate(cw.cert) IN
          IF ~cmCertC.exists
          THEN /\ cw'.call = "create" /\ cw'.nw = cw.nw + 1
               /\ cmCert' = cmCert \/ (~cmCert.exists /\ cmCert' = [desired EXCEPT !.rv = 1])
          ELSE IF cmCertC.dns = desired.dns
          THEN cw'.call = "none" /\ cw'.nw = cw.nw /\ cmCert' = cmCert
          ELSE /\ cw'.call = "update" /\ cw'.nw = cw.nw + 1
               /\ \/ cmCert' = cmCert
                  \/ /\ cmCert'.dns = desired.dns
                     /\ cmCert'.exists = cmCertC.exists
                     /\ cmCert'.ready = cmCertC.ready
                     /\ cmCert'.owner = cmCertC.owner
     /\ \A k \in Children :
          (rw.pc = k /\ rw'.pc # k) =>
            LET desired == DesiredSpec(rw.config, k, rw.t) IN
            IF ~kidsC[k].exists
            THEN /\ rw'.call = "create" /\ rw'.nw = rw.nw + 1
                 /\ \/ kids' = kids
                    \/ /\ ~kids[k].exists
                       /\ kids' = [kids EXCEPT ![k] = [NoKid EXCEPT !.exists = TRUE,
                                                                   !.spec = desired, !.rv = 1]]
            ELSE IF kidsC[k].spec = desired
            THEN rw'.call = "none" /\ rw'.nw = rw.nw /\ kids' = kids
            ELSE /\ rw'.call = "update" /\ rw'.nw = rw.nw + 1
                 /\ \/ kids' = kids
                    \/ kids' = [kids EXCEPT ![k] = [kidsC[k] EXCEPT !.spec = desired,
                                                                    !.rv = @ + 1]]
     /\ \A o \in Owners :
          /\ (wk[o].pc = "vs" /\ wk'[o].pc # "vs" /\ vsvcC[o] # "foreign") =>
               CASE vsvcC[o] = "absent" ->
                      /\ wk'[o].call = "create" /\ wk'[o].nw = wk[o].nw + 1
                      /\ vsvc'[o] \in {vsvc[o], "owned"}
                 [] vsvcC[o] = "owned" ->
                      wk'[o].call = "none" /\ wk'[o].nw = wk[o].nw /\ vsvc' = vsvc
                 [] OTHER ->
                      /\ wk'[o].call = "update" /\ wk'[o].nw = wk[o].nw + 1
                      /\ vsvc'[o] \in {vsvc[o], "owned"}
          /\ SecretStepped(o) =>
               LET desired == NextReplica(o)
                   found == SecretGet(secretsC, SecretKey(desired)) IN
               IF found = {}
               THEN /\ wk'[o].call = "create" /\ wk'[o].nw = wk[o].nw + 1
                    /\ secrets' \in {secrets, secrets \cup {desired}}
               ELSE IF \E s \in found : s.data = desired.data
               THEN wk'[o].call = "none" /\ wk'[o].nw = wk[o].nw /\ secrets' = secrets
               ELSE /\ wk'[o].call = "update" /\ wk'[o].nw = wk[o].nw + 1
                    /\ \/ secrets' = secrets
                       \/ \E s \in found :
                            secrets' = (secrets \ {s}) \cup {[s EXCEPT !.data = desired.data]}
    ]_vars

\* C12 witness: the Update of a cert-manager Certificate that cert-manager had
\* marked ready is in the store: desired DNS names, still ready.
C12_Witness ==
  /\ cw.pc = "status" /\ cw.call = "update" /\ ~cw.err
  /\ cmCert.ready /\ cmCert.rv = 3
  /\ cmCert.dns = makeCertManagerCertificate(cw.cert).dns

\* C13: a converge step that finds an object of the desired name which its
\* parent does not control returns an error and issues no Create or Update
\* (here: the VirtualService of a ClusterIngress and the cert-manager
\* Certificate of a Knative Certificate).
C13_ForeignChildUntouched ==
  [][/\ \A o \in Owners :
          (wk[o].pc = "vs" /\ wk'[o].pc # "vs" /\ vsvcC[o] = "foreign") =>
            /\ wk'[o].err /\ wk'[o].nw = wk[o].nw /\ wk'[o].call = "none"
            /\ vsvc' = vsvc
     /\ (cw.pc = "cm" /\ cw'.pc # "cm"
           /\ cmCertC.exists /\ cmCertC.owner # CertificateKey[2]) =>
          /\ cw'.err /\ cw'.nw = cw.nw /\ cw'.call = "none"
          /\ cmCert' = cmCert
    ]_vars

\* The Route reconcile in flight has got a target error from the traffic builder.
TargetError == rw.pc \in {"status", "done"} /\ rw.route.status.traffic = "bad"

\* C14: when the traffic builder returns a target error, the Route reconcile
\* marks the bad-target condition in the status and its body returns nil
\* without a Create or Update of a Certificate, ClusterIngress or Service;
\* Reconcile then returns nil unless the write of that status fails.
C14_TargetErrorNotEscalated ==
  /\ [][(rw.pc = "track" /\ rw'.pc # "track" /\ rw.built = "bad")
          => /\ rw'.pc = "status" /\ rw'.route.status.traffic = "bad"
             /\ ~rw'.err /\ rw'.nw = 0 /\ kids' = kids]_vars
  /\ [][(TargetError /\ rw'.pc # "idle")
          => /\ kids'["certificate"] = kids["certificate"]
             /\ kids'["service"] = kids["service"]
             /\ kids'["clusterIngress"].spec = kids["clusterIngress"].spec
             /\ kids'["clusterIngress"].exists = kids["clusterIngress"].exists]_vars
  /\ [](TargetError
          => /\ ~rw.err /\ rw.nw = 0
             /\ rw.pc = "done" => (rw.ret = "nil" <=> rw.sw # "failed"))

\* C14 witness: a Reconcile that got a target error has written the
\* bad-target status and returned nil; the Route has no child.
C14_Witness ==
  /\ rw.pc = "done" /\ rw.route.status.traffic = "bad"
  /\ rw.sw = "written" /\ rw.ret = "nil"
  /\ route.status.traffic = "bad"
  /\ \A k \in Children : ~kids[k].exists

C18_SnapshotImmutable ==
  /\ [][(loaded' # loaded /\ ~loaded'.mutated) => loaded'.value = configStore]_vars
  /\ [][(loaded'.mutated /\ ~loaded.mutated)
          => /\ configStore' = configStore
             /\ configStore'.Istio # loaded'.value.Istio]_vars

\* C18 witness: the caller has overwritten the gateway list and the TLS mode
\* of the Config it loaded; the store still holds MANUAL and its own gateway.
C18_Witness ==
  /\ loaded.held /\ loaded.mutated
  /\ loaded.value.TLSMode = AutoTLS /\ loaded.value.Istio[1].GatewayName = "mutated"
  /\ configStore.TLSMode = ManualTLS
  /\ configStore.Istio[1].GatewayName = "knative-ingress-gateway"

\* C19: a config map that fails to parse (a config-tls whose tls-mode is
\* neither AUTO nor MANUAL, an Istio map without a gateway, an empty domain
\* map) leaves the snapshot of the store as it was.
C19_LastGoodKept ==
  [][(lastChange' # lastChange /\ lastChange'.err) => configStore' = configStore]_vars

\* C19 witness: the store took in tls-mode AUTO, then a config-tls map that
\* does not parse arrived; the snapshot still says AUTO.
C19_Witness ==
  /\ lastChange.name = TLSConfigName /\ lastChange.err
  /\ lastChange.data[TLSModeKey] = "UNSUPPORTED"
  /\ configStore.TLSMode = AutoTLS

\* The Reconcile call of the worker is past its start and not yet finished.
InFlight(r) == r.pc \notin {"idle", "done"}

\* C17: a Reconcile call takes the snapshot of the config store once, at its
\* start; every later read of the call (gateway names, gateway service
\* namespaces, route domain) yields the values of that snapshot, whatever the
\* store has swapped in since.
C17_SnapshotCapturedOnce ==
  /\ [][\A o \in Owners :
          /\ (wk[o].pc = "idle" /\ InFlight(wk'[o])) => wk'[o].config = configStore
          /\ (InFlight(wk[o]) /\ InFlight(wk'[o])) => wk'[o].config = wk[o].config
          /\ (wk[o].pc \notin {"gw", "gwupd"} /\ wk'[o].pc = "gw") =>
               Range(wk'[o].gws) = { gw.GatewayName : gw \in Range(wk'[o].config.Istio) }
          /\ (wk[o].pc # "sec" /\ wk'[o].pc = "sec") =>
               \A i \in DOMAIN wk'[o].secs :
                 \E gw \in Range(wk[o].config.Istio) :
                   wk'[o].secs[i].ns = ServiceNamespace(gw.ServiceURL)
          /\ (wk[o].pc \notin {"del", "sec1", "sec1d", "sec1c"}
                /\ wk'[o].pc \in {"del", "sec1"}) =>
               wk'[o].nss = [i \in DOMAIN wk[o].config.Istio |->
                               ServiceNamespace(wk[o].config.Istio[i].ServiceURL)]]_vars
  /\ [][/\ (rw.pc = "idle" /\ InFlight(rw')) => rw'.config = configStore
        /\ (InFlight(rw) /\ InFlight(rw')) => rw'.config = rw.config
        /\ (rw.pc = "certificate" /\ rw'.pc = "clusterIngress") =>
             /\ rw'.route.status.domain = routeDomain(rw.config)
             /\ kids'["certificate"] # kids["certificate"] =>
                  kids'["certificate"].spec = makeCertificate(rw.config, rw.t)]_vars

\* C17 witness: the store swapped the domain fragment while a Route reconcile
\* was in flight; the call has set the status domain from the snapshot it took.
C17_Witness ==
  /\ rw.pc = "clusterIngress" /\ rw.config # configStore
  /\ rw.config.Domain = "example.com" /\ configStore.Domain = "example.org"
  /\ rw.route.status.domain = << "r", "ns", "example", "com" >>
RetriggeredWhenEnqueued ==
  (routeQueue /\ cfgReadyC /\ route.exists) ~> (route.status.traffic = "assigned")

\* The Route stays at a bad target although its Configuration is ready and
\* seen by the lister: no worker runs, the queue is empty, nothing is pending.
RouteStuck ==
  /\ route.exists /\ route.status.traffic = "bad" /\ routeC = route
  /\ cfgReady /\ cfgReadyC
  /\ rw.pc = "idle" /\ ~routeQueue /\ kidsC = kids

\* Both workers are back, the queue holds no retry and the listers have
\* caught up.
Quiescent ==
  /\ rw.pc = "idle" /\ rw2.pc = "idle"
  /\ ~routeQueue
  /\ RouteSynced

\* Child k as one Reconcile of the Route leaves it: created, or the stale one
\* updated once.
ConvergedOnce(k) ==
  LET desired == DesiredSpec(DefaultConfig, k, route.targets) IN
  \/ kids[k] = [NoKid EXCEPT !.exists = TRUE, !.spec = desired, !.rv = 1]
  \/ k = "certificate" /\ kids[k] = [StaleKid EXCEPT !.spec = desired, !.rv = 2]

ParentWildcards(dnsNames) ==
  { << "*" >> \o Tail(dnsNames[i]) : i \in DOMAIN dnsNames }

\* The list of three names of the certificate-dedup example.
DedupExample ==
  << << "a", "x", "example", "com" >>, << "b", "x", "example", "com" >>,
     << "y", "example", "com" >> >>

\* C21: with the wildcard mode on, MakeCertificates returns one Certificate
\* per distinct parent wildcard of the names it is given, each with that one
\* wildcard as its only DNS name; for a.x.example.com, b.x.example.com and
\* y.example.com these are the two Certificates of *.x.example.com and
\* *.example.com.
C21_OneCertificatePerWildcard ==
  (pure.fn = "MakeCertificates" /\ pure.enableWildcardCert /\ pure.route.domain # << >>)
    => /\ ~pure.out.err
       /\ Len(pure.out.certs) = Cardinality(ParentWildcards(pure.dnsNames))
       /\ { c.dns : c \in Range(pure.out.certs) }
            = { << w >> : w \in ParentWildcards(pure.dnsNames) }
       /\ Range(pure.dnsNames) = Range(DedupExample)
            => { c.dns : c \in Range(pure.out.certs) }
                 = { << << "*", "x", "example", "com" >> >>,
                     << << "*", "example", "com" >> >> }

\* C21 witness: the three names of the example went in and two Certificates
\* came out.
C21_Witness ==
  /\ pure.fn = "MakeCertificates" /\ pure.enableWildcardCert
  /\ pure.dnsNames = DedupExample
  /\ Len(pure.out.certs) = 2

\* The names a Route of this domain and these targets needs.
MinimalNames(domain, targets) ==
  {domain} \cup { << t >> \o domain : t \in targets \ {""} }

\* A list in strictly ascending order: sorted and free of duplicates.
Ascending(names) ==
  \A i, j \in DOMAIN names : i < j => NameLess(names[i], names[j])

\* C22: the DNS names built for a Route are its domain and "<target>.<domain>"
\* for every target with a name, each once and in ascending order; with the
\* wildcard mode off one Certificate carries them all.
C22_MinimalSortedNames ==
  /\ (pure.fn = "GetDNSNames" /\ pure.route.domain # << >>)
       => /\ Range(pure.dnsNames) = MinimalNames(pure.route.domain, pure.targets)
          /\ ~pure.out.err /\ Len(pure.out.certs) = 1
          /\ Range(pure.out.certs[1].dns) = MinimalNames(pure.route.domain, pure.targets)
          /\ Ascending(pure.out.certs[1].dns)
  /\ pure.fn = "makeCertificate"
       => /\ Range(pure.out)
               = MinimalNames(<< "r", "ns" >> \o DomainLabels(pure.domain), pure.targets)
          /\ Ascending(pure.out)

\* C22 witness: the range over the targets yielded v1 before a, and the one
\* Certificate lists the name of a, then the domain, then the name of v1.
C22_Witness ==
  /\ pure.fn = "GetDNSNames"
  /\ pure.targetNames = << "v1", "", "a" >>
  /\ Len(pure.out.certs) = 1
  /\ pure.out.certs[1].dns
       = << << "a", "r", "ns", "example", "com" >>, << "r", "ns", "example", "com" >>,
            << "v1", "r", "ns", "example", "com" >> >>

\* A Reconcile of Route r in ns with the default target alone has returned
\* nil, with example.com as the domain suffix of its config and the ready
\* revision of the Configuration in the lister.
SingleTargetDone ==
  /\ kind = "Route"
  /\ rw.pc = "done" /\ rw.ret = "nil" /\ rw.built = "built"
  /\ rw.route.targets = {""}
  /\ rw.config.Domain = "example.com"

CertificateDone ==
  /\ kind = "Certificate"
  /\ cw.pc = "done" /\ cw.ret = "nil" /\ cw.cert.exists /\ cw.clean

\* C24 (as stated): after a successful reconcile of a Knative Certificate its
\* Ready condition is True exactly when the Ready condition of the
\* cert-manager Certificate is True.
C24_ReadyFollowsExternal ==
  CertificateDone
    => /\ cw.cert.status.ready <=> cmCert.ready
       /\ cw.sw = "written" => (knCert.status.ready <=> cmCert.ready)

\* C25 (as stated): a reconcile of a Knative Certificate that has no
\* cert-manager Certificate creates the one MakeCertManagerCertificate gives,
\* with the DNS names of the Knative Certificate, and its status lists those
\* DNS names as supported and is not Ready.
C25_CreatesMatchingCertificate ==
  [][(cw.pc = "cm" /\ ~cmCert.exists /\ cmCert'.exists)
       => /\ cmCert' = [MakeCertManagerCertificate(cw.cert) EXCEPT !.rv = 1]
          /\ cw'.cert.status.dns = cw.cert.dns
          /\ ~cw'.cert.status.ready]_vars

\* C26 (as stated): every cert-manager Certificate that a controller builds
\* to create carries exactly one controller owner reference, to the Knative
\* Certificate of the same namespace and name.
C26_OneControllerOwner ==
  pure.fn = "buildDesiredCerts" =>
    \A i \in DOMAIN pure.out :
      pure.out[i].owners = { << pure.out[i].namespace, pure.out[i].name >> }

\* C27: the tracker's registration of the Route with its Configuration is
\* leased. When the lease runs out the registration is gone; an event of the
\* Configuration that the tracker receives without a live registration does
\* not enqueue the Route, an event it receives with a live registration does,
\* and a configureTraffic that has a traffic configuration registers again.
C27_LeasedRegistration ==
  [][/\ (routeTracker # {} /\ rw' = rw /\ rw2' = rw2 /\ routeTracker' # routeTracker)
          => routeTracker' = {}
     /\ (cfgReadyC' # cfgReadyC /\ routeTracker = {}) => routeQueue' = routeQueue
     /\ (cfgReadyC' # cfgReadyC /\ "Configuration" \in routeTracker) => routeQueue'
     /\ (rw.pc = "track" /\ rw'.pc # "track" /\ rw.built # "error")
          => "Configuration" \in routeTracker']_vars

\* C27 witness: a reconcile has registered the Route while its Configuration
\* was not ready, the lease has run out, and the event of the Configuration
\* turning ready has reached the tracker without enqueueing the Route.
C27_Witness ==
  /\ kind = "Route"
  /\ rw.pc = "idle" /\ route.exists /\ route.status.traffic = "bad"
  /\ routeTracker = {}
  /\ cfgReadyC = cfgReady /\ cfgReady
  /\ ~routeQueue

\* The references of the desired state of the ClusterIngress that call r
\* loaded: its origin secrets and their replicas in the namespaces of the
\* gateway services.
DesiredRefs(r) ==
  { OriginRef(origin) : origin \in GetOriginSecrets(r.ci) } \cup
  { ReplicaRef([ns |-> ns, owner |-> r.ci.name, origin |-> origin]) :
      ns \in Range(GetGatewaySvcNamespaces(r.config)),
      origin \in GetOriginSecrets(r.ci) }

\* C28 (as stated): when a Reconcile of a ClusterIngress that started from
\* listers in sync has returned nil, the tracker holds a registration of the
\* ClusterIngress only for a secret that its desired state refers to, and
\* none when the Reconcile has deleted the ClusterIngress.
C28_RegisteredWhileReferenced ==
  \A o \in Owners :
    (build = 2 /\ wk[o].pc = "done" /\ wk[o].key = o /\ wk[o].ret = "nil" /\ wk[o].clean
       /\ wk[o].ci.exists)
      => /\ ~wk[o].ci.deleting
              => \A t \in track : t[2] = o => t[1] \in DesiredRefs(wk[o])
         /\ (wk[o].ci.deleting /\ ~ingress[o].exists)
              => \A t \in track : t[2] # o

\* C29 (as stated): for each TLS entry of the ClusterIngress the desired
\* secrets hold exactly one replica per distinct namespace of the ingress
\* gateway services, with the data of the origin secret and the labels of the
\* ClusterIngress and of the origin secret.
C29_OneReplicaPerNamespace ==
  pure.fn = "MakeDesiredSecrets" =>
    LET nss == { ServiceNamespace(pure.gateways[g].ServiceURL) : g \in DOMAIN pure.gateways }
    IN \A i \in DOMAIN pure.ci.tls, ns \in nss :
         LET origin == CHOOSE s \in OriginGet(secretsC, pure.ci.tls[i]) : TRUE IN
         /\ Cardinality({ j \in DOMAIN pure.out :
                            pure.out[j].ns = ns /\ pure.out[j].origin = pure.ci.tls[i] }) = 1
         /\ \A j \in DOMAIN pure.out :
              pure.out[j].origin = pure.ci.tls[i]
                => pure.out[j].data = origin.data /\ pure.out[j].owner = pure.ci.name

\* The keys of the desired replicas of the ClusterIngress that call r loaded.
DesiredReplicaKeys(r) ==
  { [ns |-> ns, owner |-> r.ci.name, origin |-> origin] :
      ns \in Range(GetGatewaySvcNamespaces(r.config)), origin \in GetOriginSecrets(r.ci) }

\* C30 (as stated): when a Reconcile of a ClusterIngress that started from
\* listers in sync has returned nil, every secret in the store that carries
\* the label of the ClusterIngress is one of its desired replicas, and the
\* tracker holds no registration of a replica that is not desired.
C30_OnlyDesiredReplicasLeft ==
  \A o \in Owners :
    (build = 2 /\ wk[o].pc = "done" /\ wk[o].key = o /\ wk[o].ret = "nil" /\ wk[o].clean
       /\ wk[o].ci.exists /\ ~wk[o].ci.deleting /\ wk[o].config = ToContext(configStore))
      => /\ \A s \in MakeSecretSelector(secrets, wk[o].ci) :
              SecretKey(s) \in DesiredReplicaKeys(wk[o])
         /\ \A t \in track :
              (t[2] = o /\ t[1][1] = "replica") => t[1][2] \in DesiredReplicaKeys(wk[o])

\* How often x occurs in the sequence q.
Occurrences(q, x) == Cardinality({ i \in DOMAIN q : q[i] = x })

RECURSIVE Total(_, _, _, _)
\* The occurrences of x in the named list of the changes of the zones S.
Total(out, S, field, x) ==
  IF S = {} THEN 0
  ELSE LET id == CHOOSE i \in S : TRUE IN
       Occurrences(out[id][field], x) + Total(out, S \ {id}, field, x)

\* Zone id of zones holds name x as well as any zone does: x is in the zone
\* and in no zone with a longer DNS name.
LongestSuffixMatch(zones, id, x) ==
  /\ InZone(ensureTrailingDot(x), zones[id])
  /\ \A other \in DOMAIN zones :
       InZone(ensureTrailingDot(x), zones[other])
         => StrLen(zones[other]) <= StrLen(zones[id])

\* The records of one list of the change are split as C31 says.
SeparatedAsStated(zones, records, out, field) ==
  \A x \in Range(records) :
    /\ Total(out, DOMAIN out, field, x)
         = IF \E id \in DOMAIN zones : InZone(ensureTrailingDot(x), zones[id])
           THEN Occurrences(records, x) ELSE 0
    /\ \A id \in DOMAIN out :
         Occurrences(out[id][field], x) > 0 => LongestSuffixMatch(zones, id, x)

\* C31: separateChange puts every addition and every deletion into the change
\* of one zone, a zone whose DNS name is the longest that the record's name
\* ends with; a record that is in no zone is in no change, and the result
\* holds no zone with an empty change and nothing that was not in the input.
C31_SeparatedByLongestSuffix ==
  pure.fn = "separateChange" =>
    /\ DOMAIN pure.out \subseteq DOMAIN pure.zones
    /\ SeparatedAsStated(pure.zones, pure.change.Additions, pure.out, "Additions")
    /\ SeparatedAsStated(pure.zones, pure.change.Deletions, pure.out, "Deletions")
    /\ \A id \in DOMAIN pure.out :
         /\ pure.out[id].Additions # << >> \/ pure.out[id].Deletions # << >>
         /\ Range(pure.out[id].Additions) \subseteq Range(pure.change.Additions)
         /\ Range(pure.out[id].Deletions) \subseteq Range(pure.change.Deletions)

\* C31 witness: with the zones of example.com and sub.example.com listed, the
\* addition of b.sub.example.com is in the change of the zone of
\* sub.example.com alone and the deletion of a.example.net is in no change.
C31_Witness ==
  /\ pure.fn = "separateChange"
  /\ DOMAIN pure.zones = {"zone-com", "zone-sub", "zone-dup"}
  /\ pure.change.Additions = << Hostname(<< "b", "sub", "example", "com" >>, TRUE) >>
  /\ pure.change.Deletions = << Hostname(<< "a", "example", "net" >>, TRUE) >>
  /\ DOMAIN pure.out = {"zone-sub"}
  /\ pure.out["zone-sub"].Additions = pure.change.Additions
  /\ pure.out["zone-sub"].Deletions = << >>

\* C32: while a gateway in the store holds a server of a ClusterIngress that
\* is in the store and is not being deleted, the stored finalizer list of
\* that ClusterIngress holds the ClusterIngress finalizer.
C32_FinalizerBeforeServers ==
  \A o \in Owners :
    (ingress[o].exists /\ ~ingress[o].deleting /\ ServersOf(gateway, o) # {})
      => clusterIngressFinalizer \in Range(ingress[o].fin)

\* C32 witness: a reconcile of A has added the finalizer and written A's
\* servers to a gateway, and A is not being deleted.
C32_Witness ==
  /\ ingress["A"].exists /\ ~ingress["A"].deleting
  /\ ServersOf(gateway, "A") # {}
  /\ wk["A"].key = "A" /\ wk["A"].nw >= 2

\* The stored ClusterIngress o is after the step as before it but for its
\* finalizer list and resource version (or it is gone with its last finalizer).
OnlyFinalizersChanged(o) ==
  ingress'[o].exists
    => /\ ingress'[o].tls = ingress[o].tls
       /\ ingress'[o].status = ingress[o].status
       /\ ingress'[o].gen = ingress[o].gen
       /\ ingress'[o].deleting = ingress[o].deleting

\* C33 (as stated): the removal of the finalizer at the end of the deletion
\* path is a patch of the finalizer list: unless the call itself fails, it
\* takes the finalizer out of the stored list and leaves everything else of
\* the stored object as it is, also when the copy of the reconciler is stale.
C33_FinalizerRemovedByPatch ==
  [][\A o \in Owners :
       (wk[o].pc = "rmfin" /\ wk'[o].pc # "rmfin" /\ failures' = failures
          /\ ingress[o].exists)
         => /\ clusterIngressFinalizer \notin Range(ingress'[o].fin)
            /\ OnlyFinalizersChanged(o)]_vars

\* The body of o has failed on a VirtualService that another object controls.
NotOwned(r) == r.err /\ r.ci.status.cond = "notowned"

\* C34: when the VirtualService exists and the ClusterIngress does not control
\* it, Reconcile writes no VirtualService (nor anything else but the status),
\* returns an error, and persists the not-owned condition with a status
\* update: the update is made and accepted whenever the status was not marked
\* so before, the lister holds the current object and the call does not fail.
C34_NotOwnedStatusPersisted ==
  [][\A o \in Owners :
       /\ (wk[o].pc = "vs" /\ vsvcC[o] = "foreign" /\ wk'[o].pc # "vs")
            => /\ wk'[o].pc = "status" /\ NotOwned(wk'[o])
               /\ wk'[o].nw = 0 /\ vsvc' = vsvc
       /\ (wk[o].pc = "status" /\ NotOwned(wk[o]) /\ wk'[o].pc = "done")
         => /\ wk'[o].ret = "error"
            /\ wk[o].nw = 0
            /\ vsvc'[o] = "foreign" /\ vsvcC[o] = "foreign"
            /\ (/\ wk[o].orig.cond # "notowned"
                /\ ingressC[o].exists /\ ingressC[o].status.cond # "notowned"
                /\ ingress[o].exists /\ ingress[o].rv = ingressC[o].rv
                /\ failures' = failures)
                 => /\ wk'[o].sw = "written"
                    /\ ingress'[o].status.cond = "notowned"]_vars

\* C34 witness: Reconcile of A has returned an error, the stored status of A
\* carries the not-owned condition it wrote, and the VirtualService is still
\* the other owner's.
C34_Witness ==
  /\ wk["A"].pc = "done" /\ NotOwned(wk["A"])
  /\ wk["A"].sw = "written" /\ wk["A"].ret = "error" /\ wk["A"].nw = 0
  /\ ingress["A"].status.cond = "notowned"
  /\ vsvc["A"] = "foreign"

\* The lists of DNS names that are a permutation, with or without repeats, of
\* the names of this list.
Rearranged(dnsNames) ==
  { other \in NameLists(MaxNames) : Range(other) = Range(dnsNames) }

\* C35: MakeCertificates returns the same Certificates, in the same order and
\* under the same names, for every permutation and duplication of the DNS names
\* of a call; in the wildcard mode each Certificate carries one wildcard host,
\* takes its name and its secret name from that host alone, and no two
\* Certificates share a host.
C35_OrderInsensitive ==
  pure.fn = "MakeCertificates" =>
    /\ \A other \in Rearranged(pure.dnsNames) :
         MakeCertificates(pure.route, other, pure.enableWildcardCert) = pure.out
    /\ (pure.enableWildcardCert /\ ~pure.out.err) =>
         LET certs == pure.out.certs IN
         /\ \A i \in DOMAIN certs :
              /\ Len(certs[i].dns) = 1
              /\ certs[i].dns[1] \in { wildcard(n) : n \in Range(pure.dnsNames) }
              /\ certs[i].name = wildcardCertName(certs[i].dns[1])
              /\ certs[i].secretName = wildcardCertName(certs[i].dns[1])
         /\ \A i, j \in DOMAIN certs : certs[i].dns = certs[j].dns => i = j
         /\ { certs[i].dns[1] : i \in DOMAIN certs }
              = { wildcard(n) : n \in Range(pure.dnsNames) }

\* C35 witness: a wildcard-mode call with three names, one of them twice and
\* not in ascending order, that yields two Certificates.
C35_Witness ==
  /\ pure.fn = "MakeCertificates" /\ pure.enableWildcardCert /\ ~pure.out.err
  /\ Len(pure.dnsNames) = 3
  /\ \E i, j \in 1 .. 3 : i < j /\ pure.dnsNames[i] = pure.dnsNames[j]
  /\ \E i, j \in 1 .. 3 : i < j /\ NameLess(pure.dnsNames[j], pure.dnsNames[i])
  /\ Len(pure.out.certs) = 2

\* C36: a status update does not overwrite a status newer than the one the
\* reconcile started from: when another writer has stored a status after the
\* reconcile loaded the object, the write-back of the reconcile leaves that
\* status in the store (it is refused with a conflict or it writes nothing).
C36_NewerStatusKept ==
  [][\A o \in Owners :
       (/\ wk[o].pc = "status" /\ wk'[o].pc = "done"
        /\ ingress[o].exists
        /\ ingress[o].status.cond = "other" /\ wk[o].orig.cond # "other")
         => ingress'[o].status = ingress[o].status]_vars

\* C37: a status stored with the ready conditions and an ObservedGeneration
\* equal to the Generation tells that the gateway servers and the replica
\* secrets of that generation are in place: a reconcile whose body failed (in
\* ensureFinalizer, reconcileGateways or reconcileCertSecrets) stores no such
\* status.
C37_ReadyMeansConverged ==
  [][\A o \in Owners :
       (/\ enableReconcilingGateway
        /\ wk[o].pc = "status" /\ wk'[o].pc = "done" /\ wk'[o].sw = "written"
        /\ ingress'[o].status.cond = "ready"
        /\ ingress'[o].status.og = ingress'[o].gen)
         => ~wk[o].err]_vars

\* The replica of the origin secret of server s of ClusterIngress o is in the
\* namespace of the ingress service of gateway g.
ReplicaInPlace(o, g, s) ==
  \E x \in secrets :
    SecretKey(x) = [ns |-> GatewayNamespace(g), owner |-> o, origin |-> s.cred]

\* C38: while a ClusterIngress is not being deleted, every gateway server
\* tagged with it refers to a replica secret that exists in the namespace of
\* the gateway's ingress service.
C38_ServersHaveReplicas ==
  \A o \in Owners, g \in GatewayNames :
    (ingress[o].exists /\ ~ingress[o].deleting)
      => \A s \in GetServers(gateway[g], Tagged(o)) : ReplicaInPlace(o, g, s)

\* C39: after AddToCertOwner(cert, r) the route r is an owner, after
\* RemoveCertOwner(cert, r) it is not, and either call leaves every other
\* route an owner or not as it was; on an annotation that is missing or not
\* JSON each call returns an error and leaves the annotation as it was.
C39_OwnerAddedAndRemoved ==
  pure.fn \in {"AddToCertOwner", "RemoveCertOwner"} =>
    LET unreadable == pure.before.annotation \in
                        {MissingAnnotation, NotJSONAnnotation, ObjectAnnotation} IN
    /\ pure.err <=> unreadable
    /\ pure.err => pure.cert = pure.before
    /\ ~pure.err =>
         /\ IsCertOwner(pure.cert, pure.route) =
              [owner |-> pure.fn = "AddToCertOwner", err |-> FALSE]
         /\ \A other \in OwnerRoutes \ {pure.route} :
              IsCertOwner(pure.cert, other) = IsCertOwner(pure.before, other)
         /\ [pure.cert EXCEPT !.annotation = pure.before.annotation] = pure.before

\* C39 witness: a route has been removed from an annotation that held it
\* together with another route, which is still an owner.
C39_Witness ==
  /\ pure.fn = "RemoveCertOwner" /\ ~pure.err
  /\ IsCertOwner(pure.before, pure.route).owner
  /\ ~IsCertOwner(pure.cert, pure.route).owner
  /\ \E other \in OwnerRoutes \ {pure.route} : IsCertOwner(pure.cert, other).owner

\* The list q of route keys is in the order of sort.Strings.
KeysAscending(q) == \A i, j \in DOMAIN q : i < j => ~NameLess(q[j], q[i])

\* C40: after any sequence of AddToCertOwner and RemoveCertOwner calls on a
\* Certificate that makeCert built, the owner annotation is a sorted list
\* that holds no route key twice.
C40_OwnersSortedAndDistinct ==
  (pure.fn \in {"makeCert", "AddToCertOwner", "RemoveCertOwner"}
     /\ pure.cert.annotation.json = "list") =>
    LET q == pure.cert.annotation.keys IN
    /\ KeysAscending(q)
    /\ \A i, j \in DOMAIN q : q[i] = q[j] => i = j

====
